---- MODULE Spec2Model ----
(***************************************************************************)
(* Payjoin of ldk-node: the negotiation task spawned by                    *)
(* PayjoinPayment::send (src/payment/payjoin/mod.rs), the confirmation     *)
(* tracker PayjoinHandler (src/payment/payjoin/handler.rs) and the         *)
(* receiver's request handler (src/payjoin.rs).                            *)
(*                                                                         *)
(* The wallet, the relay, the payjoin library, the broadcaster, the chain  *)
(* source and the event queue are collaborators: what they answer is an    *)
(* input of the action that calls them.                                    *)
(***************************************************************************)
EXTENDS Integers, Sequences, FiniteSets, TLC

VARIABLES
    runtime,            \* PayjoinPayment.runtime: TRUE when Some(runtime)
    sender,             \* PayjoinPayment.sender: TRUE when Some(handler)
    overflow_checks,    \* build profile: TRUE when u32 overflow panics
    best_known_block,   \* PayjoinHandler.best_known_block
    transactions,       \* PayjoinHandler.transactions (a Vec)
    poisoned,           \* the RwLock of `transactions` was poisoned by a panic
    event_queue,        \* the events handed to EventQueue::add_event, in order
    registered,         \* the (txid, script) pairs handed to ChainSource::register_tx
    broadcasted,        \* the transactions handed to the broadcaster
    task,               \* the negotiation tasks, one per call of send
    calls,              \* history: the results of the calls of send / send_with_amount
    task_log,           \* history: per task, its polls and the events it added
    now,                \* the clock, in units of the retry timers
    chain_log,          \* history of the chain notifications, where one is kept
    rx,                 \* the receiver's handler of the request it is serving
    conc,               \* the handler's operations in progress, statement by statement
    payjoin_sender      \* PayjoinSender::finalise_payjoin_transaction and its two PSBTs

vars == << runtime, sender, overflow_checks, best_known_block, transactions,
           poisoned, event_queue, registered, broadcasted, task, calls,
           task_log, now, chain_log, rx, conc, payjoin_sender >>

(***************************************************************************)
(* Bounds of the model.                                                    *)
(***************************************************************************)
MaxCalls == 2
LowHeights == 1
MaxTxdata == 1
MaxLag == 2
MaxTime == 8
MaxUnspent == 2
MaxThreads == 2
MaxFinalisations == 1
MaxInputs == 2

(***************************************************************************)
(* Constants of the program.                                               *)
(***************************************************************************)
ANTI_REORG_DELAY == 6
U32HalfMax == 2147483647

\* crate::config, in units of the retry interval
PAYJOIN_RETRY_INTERVAL == 1
PAYJOIN_REQUEST_TIMEOUT == 2
PAYJOIN_REQUEST_TOTAL_DURATION == 3

Tasks == 1..MaxCalls

\* Block heights the chain source reports: a low range, and one height
\* ANTI_REORG_DELAY above it, so that a difference below the delay, the
\* difference at the delay and a tip below a confirmation height all occur.
Heights == (1..LowHeights) \cup {LowHeights + ANTI_REORG_DELAY}

Headers == {"hdrA"}

\* Header::block_hash
block_hash(header) == << "hash", header >>

None == [none |-> TRUE]
Some(x) == [some |-> x]
IsSome(o) == "some" \in DOMAIN o

Ok(x) == [ok |-> x]
Err(e) == [err |-> e]
IsOk(r) == "ok" \in DOMAIN r

(***************************************************************************)
(* Transactions.  A transaction is its list of output scripts and a tag    *)
(* standing for the rest of its content; its txid is a digest of all of it.*)
(***************************************************************************)
OurScripts == {"ours"}

TxPaysUs == [tag |-> "X", output |-> << "recv", "ours" >>]
TxPaysOthers == [tag |-> "Z", output |-> << "recv" >>]
TxForeign == [tag |-> "F", output |-> << "other" >>]

ProposalTxs == {TxPaysUs, TxPaysOthers}

\* Transaction::txid
txid_of(tx) == << "txid", tx.tag, tx.output >>

(***************************************************************************)
(* Payment URIs.  The string form is a record of its parts; parsing checks *)
(* the form and require_network checks the network.  A BIP21 string holds  *)
(* the amount in bitcoin, as a decimal with up to eight places; an Amount  *)
(* holds satoshis.                                                         *)
(***************************************************************************)
ConfigNetwork == "regtest"
Amounts == {80000}
\* The amounts passed to send_with_amount next to a URI: the URI's own and
\* another one.
AmountArgs == {50000, 80000}
Addresses == {"addrR"}
SatsPerBtc == 100000000

\* Display of bitcoin::Amount in bitcoin, and its parse.
Amount_to_btc(sats) == [btc |-> sats \div SatsPerBtc, decimals |-> sats % SatsPerBtc]
Amount_from_btc(d) == d.btc * SatsPerBtc + d.decimals
AmountParam(amount) == IF IsSome(amount) THEN Some(Amount_to_btc(amount.some)) ELSE None

UriStrings ==
    { [wellformed |-> FALSE, network |-> ConfigNetwork, address |-> "addrR", amount |-> None] }
    \cup { [wellformed |-> TRUE, network |-> n, address |-> a, amount |-> m] :
             n \in {ConfigNetwork, "bitcoin"}, a \in Addresses,
             m \in {AmountParam(None)} \cup {AmountParam(Some(x)) : x \in Amounts} }

\* payjoin::Uri::try_from
Uri_try_from(s) ==
    IF s.wellformed
    THEN Ok([network |-> s.network, address |-> s.address,
             amount |-> IF IsSome(s.amount) THEN Some(Amount_from_btc(s.amount.some))
                        ELSE None])
    ELSE Err("parse")

\* Uri::require_network
require_network(uri, network) ==
    IF uri.network = network THEN Ok(uri) ELSE Err("network")

\* Uri::to_string
Uri_to_string(uri) ==
    [wellformed |-> TRUE, network |-> uri.network, address |-> uri.address,
     amount |-> AmountParam(uri.amount)]

\* Address::script_pubkey
script_pubkey(address) == << "spk", address >>

(***************************************************************************)
(* The confirmation tracker: PayjoinHandler.                               *)
(***************************************************************************)
PendingFirstConfirmation(tx, receiver, amount, height, hash) ==
    [state |-> "PendingFirstConfirmation", tx |-> tx, receiver |-> receiver,
     amount |-> amount, first_broadcast_height |-> height,
     first_broadcast_hash |-> hash]

PendingThresholdConfirmations(e, height, hash) ==
    [state |-> "PendingThresholdConfirmations", tx |-> e.tx,
     receiver |-> e.receiver, amount |-> e.amount,
     first_broadcast_height |-> e.first_broadcast_height,
     first_broadcast_hash |-> e.first_broadcast_hash,
     first_confirmation_height |-> height, first_confirmation_hash |-> hash]

\* PayjoinTransaction::txid
entry_txid(e) == Some(txid_of(e.tx))

\* PayjoinTransaction::first_confirmation_height
first_confirmation_height(e) ==
    IF e.state = "PendingThresholdConfirmations"
    THEN Some(e.first_confirmation_height)
    ELSE None

PayjoinPaymentSuccess(e) ==
    [kind |-> "PayjoinPaymentSuccess", txid |-> txid_of(e.tx),
     amount |-> e.amount, receipient |-> e.receiver]

PayjoinPaymentPending(txid, amount, receiver) ==
    [kind |-> "PayjoinPaymentPending", txid |-> txid, amount |-> amount,
     receipient |-> receiver]

PayjoinPaymentFailed(receiver, amount, reason) ==
    [kind |-> "PayjoinPaymentFailed", receipient |-> receiver,
     amount |-> amount, reason |-> reason]

is_mine_unwrap_or_true(script, wallet_fault) == wallet_fault \/ script \in OurScripts

\* Wallet::is_mine(script).unwrap_or(false); wallet_fault: the wallet answers Err
is_mine(script, wallet_fault) == (~wallet_fault) /\ script \in OurScripts

\* tx.output.iter().find(...): the first output the wallet owns
find_our_output(tx, wallet_fault) ==
    LET idx == {i \in DOMAIN tx.output : is_mine(tx.output[i], wallet_fault)}
    IN IF idx = {} THEN None
       ELSE Some(tx.output[CHOOSE i \in idx : \A j \in idx : i <= j])

\* The u32 subtraction a - b of a build without overflow checks, compared
\* with c: a - b wraps to 2^32 - (b - a) when a < b.  2^32 is not
\* representable here, so (2^32 - (b - a) >= c) is computed as
\* ((b - a) + c - 1) \div 2 <= 2^31 - 1.
u32_wrapping_sub_ge(a, b, c) ==
    IF a >= b THEN a - b >= c
    ELSE ((b - a) + c - 1) \div 2 <= U32HalfMax

\* Vec::retain with the closure of best_block_updated.  A closure that panics
\* (u32 underflow with overflow checks) leaves the element it was called on
\* and all the later ones in the Vec.
RECURSIVE retain(_, _, _)
retain(txs, height, checks) ==
    IF txs = << >> THEN [kept |-> << >>, events |-> << >>, panicked |-> FALSE]
    ELSE LET e == Head(txs)
             first_conf == first_confirmation_height(e)
         IN IF IsSome(first_conf) /\ IsSome(entry_txid(e))
            THEN IF height < first_conf.some /\ checks
                 THEN [kept |-> txs, events |-> << >>, panicked |-> TRUE]
                 ELSE LET r == retain(Tail(txs), height, checks)
                      IN IF u32_wrapping_sub_ge(height, first_conf.some, ANTI_REORG_DELAY)
                         THEN [kept |-> r.kept,
                               events |-> << PayjoinPaymentSuccess(e) >> \o r.events,
                               panicked |-> r.panicked]
                         ELSE [kept |-> << e >> \o r.kept, events |-> r.events,
                               panicked |-> r.panicked]
            ELSE LET r == retain(Tail(txs), height, checks)
                 IN [kept |-> << e >> \o r.kept, events |-> r.events,
                     panicked |-> r.panicked]

\* transactions.iter().position(|o| o.txid() == Some(txid))
position(txs, txid) ==
    LET idx == {i \in DOMAIN txs : entry_txid(txs[i]) = Some(txid)}
    IN IF idx = {} THEN None
       ELSE Some(CHOOSE i \in idx : \A j \in idx : i <= j)

\* Vec::remove
remove(txs, i) == SubSeq(txs, 1, i - 1) \o SubSeq(txs, i + 1, Len(txs))

\* The history of the chain notifications: the transactions reported
\* unconfirmed and not confirmed again since, and how the last notification
\* ended ("" when it returned, the panic otherwise).  A specification either
\* keeps it from its first state on or leaves it at NoChainLog.
NoChainLog == [kept |-> FALSE]
EmptyChainLog == [kept |-> TRUE, unconfirmed |-> {}, panic |-> "", last |-> << >>]

Notified(log, call, confirmed, unconfirmed, panic) ==
    IF ~log.kept THEN log
    ELSE [kept |-> TRUE,
          unconfirmed |-> (log.unconfirmed \ confirmed) \cup unconfirmed,
          panic |-> panic,
          last |-> call]

\* EventQueue::add_event for the events of one call, in order: Ok(()) with
\* the events appended, or an Err with the queue as it was.
add_event(queue, events, accepted) == IF accepted THEN queue \o events ELSE queue

\* Confirm::best_block_updated; accepted: add_event answers Ok.
BestBlockUpdatedWith(header, height, accepted) ==
    /\ sender
    /\ best_known_block' = Some([height |-> height, block_hash |-> block_hash(header)])
    /\ IF poisoned
       THEN /\ UNCHANGED << transactions, poisoned, event_queue >>
            /\ chain_log' = Notified(chain_log, << "best_block_updated", header, height >>,
                                     {}, {}, "best_block_updated: lock poisoned")
       ELSE LET r == retain(transactions, height, overflow_checks)
            IN /\ transactions' = r.kept
               /\ event_queue' = add_event(event_queue, r.events, accepted)
               /\ poisoned' = r.panicked
               /\ chain_log' = Notified(chain_log,
                                        << "best_block_updated", header, height >>,
                                        {}, {},
                                        IF r.panicked
                                        THEN "attempt to subtract with overflow"
                                        ELSE "")
    /\ UNCHANGED << runtime, sender, overflow_checks, registered, broadcasted,
                    task, calls, task_log, now, rx, conc, payjoin_sender >>

\* Confirm::best_block_updated with a queue that accepts every event.
BestBlockUpdated(header, height) == BestBlockUpdatedWith(header, height, TRUE)

\* PayjoinHandler::internal_transactions_confirmed, through
\* Confirm::transactions_confirmed.  txdata is the list of the block's
\* transactions that the filter matched; the code reads txdata[0] only.
internal_transactions_confirmed(txs, header, txdata, height) ==
    IF txdata = << >> THEN [transactions |-> txs, panic |-> "txdata[0]: index out of bounds", poison |-> FALSE]
    ELSE IF poisoned THEN [transactions |-> txs, panic |-> "transactions_confirmed: lock poisoned", poison |-> TRUE]
    ELSE LET pos == position(txs, txid_of(txdata[1]))
         IN IF ~IsSome(pos) THEN [transactions |-> txs, panic |-> "", poison |-> FALSE]
            ELSE LET pj_tx == txs[pos.some]
                     rest == remove(txs, pos.some)
                 IN IF pj_tx.state = "PendingFirstConfirmation"
                    THEN [transactions |->
                              Append(rest, PendingThresholdConfirmations(
                                               pj_tx, height, block_hash(header))),
                          panic |-> "", poison |-> FALSE]
                    ELSE [transactions |-> rest, panic |-> "unreachable", poison |-> TRUE]

\* The transactions a block can hold: those handed to the broadcaster, and
\* those of others.
Confirmable == broadcasted \cup {TxForeign}

RECURSIVE SeqsUpTo(_, _)
SeqsUpTo(S, n) ==
    IF n = 0 THEN {<< >>}
    ELSE LET shorter == SeqsUpTo(S, n - 1)
         IN shorter \cup {Append(q, x) : q \in {p \in shorter : Len(p) = n - 1}, x \in S}

NoRepeat(q) == \A i, j \in DOMAIN q : i # j => q[i] # q[j]

TransactionsConfirmed(header, txdata, height) ==
    /\ sender
    /\ LET r == internal_transactions_confirmed(transactions, header, txdata, height)
       IN /\ transactions' = r.transactions
          /\ poisoned' = (poisoned \/ r.poison)
          /\ chain_log' = Notified(chain_log,
                                   << "transactions_confirmed", header, txdata, height >>,
                                   {txid_of(txdata[i]) : i \in DOMAIN txdata},
                                   {}, r.panic)
    /\ UNCHANGED << runtime, sender, overflow_checks, best_known_block, event_queue,
                    registered, broadcasted, task, calls, task_log, now, rx, conc, payjoin_sender >>

\* PayjoinHandler::get_relevant_txids
get_relevant_txids ==
    {entry_txid(transactions[i]).some :
        i \in {j \in DOMAIN transactions :
                  transactions[j].state = "PendingThresholdConfirmations"}}

\* Confirm::transaction_unconfirmed, for a transaction the handler reported
\* as relevant: the body is empty.
TransactionUnconfirmed(txid) ==
    /\ sender
    /\ txid \in get_relevant_txids
    /\ chain_log' = Notified(chain_log, << "transaction_unconfirmed", txid >>,
                            {}, {txid}, "")
    /\ UNCHANGED << runtime, sender, overflow_checks, best_known_block, transactions,
                    poisoned, event_queue, registered, broadcasted, task, calls,
                    task_log, now, rx, conc, payjoin_sender >>

(***************************************************************************)
(* PayjoinHandler::finalise_payjoin_transaction.                           *)
(* sign_ok: Wallet::sign_payjoin_proposal answers Ok.                      *)
(***************************************************************************)
NoChange(result) ==
    [result |-> result, panicked |-> FALSE, transactions |-> transactions,
     registered |-> registered]

finalise_payjoin_transaction_without_tip(payjoin_proposal, payjoin_uri, sign_ok, wallet_fault) ==
    IF ~sign_ok THEN NoChange(Err("WalletOperationFailed"))
    ELSE LET tx == payjoin_proposal.tx
             our_input == find_our_output(tx, wallet_fault)
         IN IF ~IsSome(our_input)
            THEN NoChange(Err("PayjoinReceiverRequestValidationFailed"))
            ELSE [result |-> Ok(tx), panicked |-> FALSE,
                  transactions |->
                      Append(transactions,
                             PendingFirstConfirmation(
                                 tx, payjoin_uri.address,
                                 IF IsSome(payjoin_uri.amount)
                                 THEN payjoin_uri.amount.some ELSE 0,
                                 0, block_hash("hdrA"))),
                  registered |-> registered \cup {<< txid_of(tx), our_input.some >>}]

finalise_payjoin_transaction(payjoin_proposal, payjoin_uri, sign_ok, wallet_fault) ==
    IF ~sign_ok THEN NoChange(Err("WalletOperationFailed"))
    ELSE LET tx == payjoin_proposal.tx
             our_input == find_our_output(tx, wallet_fault)
         IN IF ~IsSome(our_input)
            THEN NoChange(Err("PayjoinReceiverRequestValidationFailed"))
            ELSE IF ~IsSome(best_known_block)
            THEN NoChange(Err("PayjoinReceiverRequestValidationFailed"))
            ELSE IF poisoned
            THEN [result |-> Err("panic"), panicked |-> TRUE,
                  transactions |-> transactions, registered |-> registered]
            ELSE [result |-> Ok(tx), panicked |-> FALSE,
                  transactions |->
                      Append(transactions,
                             PendingFirstConfirmation(
                                 tx, payjoin_uri.address,
                                 IF IsSome(payjoin_uri.amount)
                                 THEN payjoin_uri.amount.some ELSE 0,
                                 best_known_block.some.height,
                                 best_known_block.some.block_hash)),
                  registered |-> registered \cup {<< txid_of(tx), our_input.some >>}]

(***************************************************************************)
(* The relay's answers to one POST, as reqwest reports them.               *)
(***************************************************************************)
Statuses == {200, 304, 404}

Bodies ==
    {[kind |-> "empty"], [kind |-> "undecodable"], [kind |-> "not_ready"]}
    \cup {[kind |-> "proposal", tx |-> tx, valid |-> v] :
            tx \in ProposalTxs, v \in BOOLEAN}

HttpOutcomes ==
    {[kind |-> "transport_error"], [kind |-> "timeout"]}
    \cup {[kind |-> "body_error", status |-> st] : st \in Statuses}
    \cup {[kind |-> "response", status |-> st, body |-> b] :
            st \in Statuses, b \in Bodies}

\* One POST's answer together with what the collaborators answer while the
\* rest of the tick branch runs: the payjoin library on a body of zero bytes
\* (empty_is_none), Wallet::sign_payjoin_proposal (sign_ok) and
\* Wallet::is_mine (wallet_fault).  An answer that is never asked for is left
\* at one value.
Answers ==
    {[outcome |-> o, empty_is_none |-> n, sign_ok |-> g, wallet_fault |-> w] :
        o \in HttpOutcomes, n, g, w \in BOOLEAN}

Asked(a) ==
    LET body == IF a.outcome.kind = "response" THEN a.outcome.body.kind ELSE "none"
        proposal == body = "proposal" /\ a.outcome.body.valid
    IN /\ (body # "empty") => a.empty_is_none
       /\ (~proposal) => a.sign_ok
       /\ (~(proposal /\ a.sign_ok)) => ~a.wallet_fault

AskedAnswers == {a \in Answers : Asked(a)}

\* reqwest::Response::error_for_status: an error for 400..=599 only
error_for_status(status) == status >= 400 /\ status <= 599

\* PayjoinHandler::send_request
send_request(outcome) ==
    IF outcome.kind \in {"transport_error", "timeout"} THEN Err("reqwest")
    ELSE IF error_for_status(outcome.status) THEN Err("reqwest")
    ELSE IF outcome.kind = "body_error" THEN Err("reqwest")
    ELSE Ok(outcome.body)

\* payjoin::send::ContextV2::process_response, of the payjoin library.  The
\* body is an encapsulated message: Ok(None) when it says that the receiver
\* has not answered yet, Ok(Some(psbt)) for a proposal the library accepts,
\* Err for a body it cannot decode or a proposal it rejects.  What it answers
\* for a body of zero bytes is not fixed by this repository: empty_is_none.
process_response(body, empty_is_none) ==
    CASE body.kind = "not_ready" -> Ok(None)
      [] body.kind = "empty" ->
            IF empty_is_none THEN Ok(None) ELSE Err("ResponseError")
      [] body.kind = "undecodable" -> Err("ResponseError")
      [] body.kind = "proposal" ->
            IF body.valid THEN Ok(Some([tx |-> body.tx]))
            ELSE Err("ResponseError")

(***************************************************************************)
(* PayjoinPayment::send and send_with_amount.                              *)
(* build_ok: Wallet::build_payjoin_transaction answers Ok.                 *)
(* The result names what the call did before it returned: whether it       *)
(* asked the wallet to build the original transaction, and the task it     *)
(* spawned.                                                                *)
(***************************************************************************)
Rejected(e, built) == [result |-> Err(e), built |-> built, spawn |-> None]

\* Variants of send against which the claims on its order of checks are tried.
send_builds_before_amount(uri_string, build_ok) ==
    IF ~runtime THEN Rejected("NotRunning", FALSE)
    ELSE IF ~sender THEN Rejected("PayjoinUnavailable", FALSE)
    ELSE LET parsed == Uri_try_from(uri_string)
         IN IF ~IsOk(parsed) THEN Rejected("PayjoinUriInvalid", FALSE)
            ELSE LET checked == require_network(parsed.ok, ConfigNetwork)
                 IN IF ~IsOk(checked) THEN Rejected("InvalidNetwork", FALSE)
                    ELSE IF ~build_ok THEN Rejected("WalletOperationFailed", TRUE)
                    ELSE IF ~IsSome(checked.ok.amount)
                    THEN Rejected("PayjoinRequestMissingAmount", TRUE)
                    ELSE [result |-> Ok("spawned"), built |-> TRUE,
                          spawn |-> Some(
                              [payjoin_uri |-> checked.ok,
                               amount_to_send |-> checked.ok.amount.some,
                               original_psbt |->
                                   [script |-> script_pubkey(checked.ok.address),
                                    amount |-> checked.ok.amount.some]])]

send_spawns_before_build(uri_string, build_ok) ==
    IF ~runtime THEN Rejected("NotRunning", FALSE)
    ELSE IF ~sender THEN Rejected("PayjoinUnavailable", FALSE)
    ELSE LET parsed == Uri_try_from(uri_string)
         IN IF ~IsOk(parsed) THEN Rejected("PayjoinUriInvalid", FALSE)
            ELSE LET checked == require_network(parsed.ok, ConfigNetwork)
                 IN IF ~IsOk(checked) THEN Rejected("InvalidNetwork", FALSE)
                    ELSE IF ~IsSome(checked.ok.amount)
                    THEN Rejected("PayjoinRequestMissingAmount", FALSE)
                    ELSE [result |-> IF build_ok THEN Ok("spawned")
                                     ELSE Err("WalletOperationFailed"),
                          built |-> TRUE,
                          spawn |-> Some(
                              [payjoin_uri |-> checked.ok,
                               amount_to_send |-> checked.ok.amount.some,
                               original_psbt |->
                                   [script |-> script_pubkey(checked.ok.address),
                                    amount |-> checked.ok.amount.some]])]

send(uri_string, build_ok) ==
    IF ~runtime THEN Rejected("NotRunning", FALSE)
    ELSE IF ~sender THEN Rejected("PayjoinUnavailable", FALSE)
    ELSE LET parsed == Uri_try_from(uri_string)
         IN IF ~IsOk(parsed) THEN Rejected("PayjoinUriInvalid", FALSE)
            ELSE LET checked == require_network(parsed.ok, ConfigNetwork)
                 IN IF ~IsOk(checked) THEN Rejected("InvalidNetwork", FALSE)
                    ELSE IF ~IsSome(checked.ok.amount)
                    THEN Rejected("PayjoinRequestMissingAmount", FALSE)
                    ELSE IF ~build_ok THEN Rejected("WalletOperationFailed", TRUE)
                    ELSE [result |-> Ok("spawned"), built |-> TRUE,
                          spawn |-> Some(
                              [payjoin_uri |-> checked.ok,
                               amount_to_send |-> checked.ok.amount.some,
                               original_psbt |->
                                   [script |-> script_pubkey(checked.ok.address),
                                    amount |-> checked.ok.amount.some]])]

\* A variant of send_with_amount that keeps the amount of a URI that has one.
send_with_amount_keeps_uri_amount(uri_string, amount_sats, build_ok) ==
    LET parsed == Uri_try_from(uri_string)
    IN IF ~IsOk(parsed) THEN Rejected("PayjoinUriInvalid", FALSE)
       ELSE LET checked == require_network(parsed.ok, ConfigNetwork)
            IN IF ~IsOk(checked) THEN Rejected("InvalidNetwork", FALSE)
               ELSE send(Uri_to_string(
                             [checked.ok EXCEPT !.amount =
                                 IF IsSome(@) THEN @ ELSE Some(amount_sats)]),
                         build_ok)

send_with_amount(uri_string, amount_sats, build_ok) ==
    LET parsed == Uri_try_from(uri_string)
    IN IF ~IsOk(parsed) THEN Rejected("PayjoinUriInvalid", FALSE)
       ELSE LET checked == require_network(parsed.ok, ConfigNetwork)
            IN IF ~IsOk(checked) THEN Rejected("InvalidNetwork", FALSE)
               ELSE send(Uri_to_string([checked.ok EXCEPT !.amount = Some(amount_sats)]),
                         build_ok)

NoTask == [pc |-> "none"]
NoLog == [events |-> << >>, other_poll |-> FALSE]

\* The task as runtime.spawn leaves it: the interval's first tick is due at
\* once, and the first pass of the loop creates a sleep.
spawned_task(spawn, timed) ==
    [pc |-> "select", payjoin_uri |-> spawn.payjoin_uri,
     amount_to_send |-> spawn.amount_to_send,
     original_psbt |-> spawn.original_psbt,
     started_at |-> IF timed THEN now ELSE 0,
     tick_at |-> IF timed THEN now ELSE 0,
     sleep_at |-> IF timed THEN now + PAYJOIN_REQUEST_TOTAL_DURATION ELSE 0,
     http_by |-> 0]

Call(r, timed) ==
    /\ Len(calls) < MaxCalls
    /\ timed => calls = << >>
    /\ calls' = Append(calls, [result |-> r.result, built |-> r.built])
    /\ task' = IF IsSome(r.spawn)
               THEN [task EXCEPT ![Len(calls) + 1] = spawned_task(r.spawn.some, timed)]
               ELSE task
    /\ UNCHANGED << runtime, sender, overflow_checks, best_known_block, transactions,
                    poisoned, event_queue, registered, broadcasted, task_log, now, chain_log, rx, conc, payjoin_sender >>

Send(uri_string, build_ok, timed) ==
    Call(send(uri_string, build_ok), timed)

SendWithAmount(uri_string, amount_sats, build_ok, timed) ==
    Call(send_with_amount(uri_string, amount_sats, build_ok), timed)

(***************************************************************************)
(* PayjoinSender, the earlier sender of src/payjoin_sender.rs.             *)
(* build_ok: Wallet::build_payjoin_transaction answers Ok; request_ok: the *)
(* RequestBuilder chain answers Ok; sign_result: Wallet::sign_transaction. *)
(***************************************************************************)
create_payjoin_request(payjoin_uri, amount, build_ok, request_ok) ==
    IF ~IsSome(amount) /\ ~IsSome(payjoin_uri.amount)
    THEN [result |-> Err("PayjoinRequestMissingAmount"), built |-> FALSE]
    ELSE LET amount_to_send == IF IsSome(amount) THEN amount.some
                               ELSE payjoin_uri.amount.some
         IN IF ~build_ok
            THEN [result |-> Err("WalletOperationFailed"), built |-> TRUE]
            ELSE IF ~request_ok
            THEN [result |-> Err("PayjoinRequestCreationFailed"), built |-> TRUE]
            ELSE [result |-> Ok([script |-> script_pubkey(payjoin_uri.address),
                                 amount |-> amount_to_send]),
                  built |-> TRUE]

SignResults == {Ok(TRUE), Ok(FALSE), Err("sign")}

PayjoinSender_finalise_payjoin_transaction(tx, sign_result) ==
    IF IsOk(sign_result) /\ sign_result.ok
    THEN [result |-> Ok(txid_of(tx)), broadcast |-> {tx}]
    ELSE [result |-> Err("PayjoinResponseProcessingFailed"), broadcast |-> {}]

\* A PSBT is the list of its inputs: unsigned_tx.input zipped with inputs.
PsbtInput(previous_output, witness_utxo, non_witness_utxo) ==
    [previous_output |-> previous_output, witness_utxo |-> witness_utxo,
     non_witness_utxo |-> non_witness_utxo]

SenderOutpoints == {"a:0", "b:0"}

distinct_inputs(psbt) ==
    \A i, j \in DOMAIN psbt :
        i # j => psbt[i].previous_output # psbt[j].previous_output

\* The original PSBTs of the wallet: every input has its witness_utxo, some
\* their non_witness_utxo as well.
SenderPsbts ==
    LET input == {PsbtInput(o, Some(<< "txout", o >>),
                            IF n THEN Some(<< "tx", o >>) ELSE None) :
                      o \in SenderOutpoints, n \in BOOLEAN}
    IN {q \in SeqsUpTo(input, MaxInputs) : q # << >> /\ distinct_inputs(q)}

\* The proposals that process_response hands over, with an input of the
\* receiver (r:0) among them or not: the receiver has cleared the UTXO data of
\* an input or has filled it in.
ProposalPsbts ==
    LET input == {PsbtInput(o, IF w THEN Some(<< "txout of receiver", o >>) ELSE None,
                            None) :
                      o \in SenderOutpoints \cup {"r:0"}, w \in BOOLEAN}
    IN {q \in SeqsUpTo(input, MaxInputs + 1) : q # << >> /\ distinct_inputs(q)}

NoProposal == [pc |-> "none"]

reattach_by_position(proposed, original) ==
    [payjoin_proposal_psbt |->
         [i \in DOMAIN proposed |->
             IF i <= Len(original)
                /\ proposed[i].previous_output = original[i].previous_output
             THEN [proposed[i] EXCEPT !.witness_utxo = original[i].witness_utxo,
                                      !.non_witness_utxo = original[i].non_witness_utxo]
             ELSE proposed[i]],
     original_psbt |-> original]

\* payjoin_sender.rs:143-155: the loop over the proposal's inputs from input
\* i on, with original_inputs.peek() at the k-th original input.
RECURSIVE original_inputs_loop(_, _, _, _)
original_inputs_loop(proposed, original, i, k) ==
    IF i > Len(proposed) THEN proposed
    ELSE IF k <= Len(original)
            /\ proposed[i].previous_output = original[k].previous_output
         THEN original_inputs_loop(
                  [proposed EXCEPT ![i].witness_utxo = original[k].witness_utxo,
                                   ![i].non_witness_utxo = original[k].non_witness_utxo],
                  original, i + 1, k + 1)
         ELSE original_inputs_loop(proposed, original, i + 1, k)

\* payjoin_sender.rs:141-155: both PSBTs after the loop.
reattach(proposed, original) ==
    [payjoin_proposal_psbt |-> original_inputs_loop(proposed, original, 1, 1),
     original_psbt |-> original]

\* Psbt::extract_tx
extract_tx(psbt) ==
    [tag |-> [i \in DOMAIN psbt |-> psbt[i].previous_output], output |-> << >>]

sender_frame ==
    UNCHANGED << runtime, sender, overflow_checks, best_known_block, transactions,
                 poisoned, event_queue, registered, task, calls, task_log, now,
                 chain_log, rx, conc >>

\* process_payjoin_response has a proposal (payjoin_sender.rs:119-121) and
\* finalise_payjoin_transaction runs its loop.
ReattachOriginalInputs(original_psbt, payjoin_proposal_psbt) ==
    /\ payjoin_sender.pc = "none"
    /\ payjoin_sender' =
           [pc |-> "sign_transaction",
            sent |-> original_psbt, received |-> payjoin_proposal_psbt,
            original_psbt |-> reattach(payjoin_proposal_psbt, original_psbt).original_psbt,
            payjoin_proposal_psbt |->
                reattach(payjoin_proposal_psbt, original_psbt).payjoin_proposal_psbt,
            result |-> None]
    /\ UNCHANGED broadcasted
    /\ sender_frame

\* payjoin_sender.rs:157-171
SignTransaction(sign_result) ==
    LET done == PayjoinSender_finalise_payjoin_transaction(
                    extract_tx(payjoin_sender.payjoin_proposal_psbt), sign_result)
    IN /\ payjoin_sender.pc = "sign_transaction"
       /\ payjoin_sender' = [payjoin_sender EXCEPT !.pc = "returned",
                                                   !.result = Some(done.result)]
       /\ broadcasted' = broadcasted \cup done.broadcast
       /\ sender_frame

(***************************************************************************)
(* The negotiation task: the loop of tokio::select! in send.               *)
(***************************************************************************)
TimeoutReason == "Payjoin request timed out."

\* What one pass through the tick branch does once the POST has returned.
Continue ==
    [pc |-> "select", events |-> << >>, broadcast |-> {},
     transactions |-> transactions, registered |-> registered]

Finish(pc, events, broadcast, txs, reg) ==
    [pc |-> pc, events |-> events, broadcast |-> broadcast,
     transactions |-> txs, registered |-> reg]

\* A variant of the tick branch that takes a failed response or a failed
\* finalisation for one more "not yet".
tick_branch_retries_failures(tk, outcome, empty_is_none, sign_ok, wallet_fault) ==
    LET response == send_request(outcome)
        receiver == tk.payjoin_uri.address
    IN IF ~IsOk(response) THEN Continue
       ELSE LET processed == process_response(response.ok, empty_is_none)
            IN IF ~IsOk(processed) THEN Continue
               ELSE IF ~IsSome(processed.ok) THEN Continue
               ELSE LET f == finalise_payjoin_transaction(
                                 processed.ok.some, tk.payjoin_uri, sign_ok, wallet_fault)
                    IN IF f.panicked
                       THEN Finish("panicked", << >>, {}, transactions, registered)
                       ELSE IF IsOk(f.result)
                       THEN Finish("done",
                                   << PayjoinPaymentPending(txid_of(f.result.ok),
                                                            tk.amount_to_send, receiver) >>,
                                   {f.result.ok}, f.transactions, f.registered)
                       ELSE Continue

tick_branch(tk, outcome, empty_is_none, sign_ok, wallet_fault) ==
    LET response == send_request(outcome)
        receiver == tk.payjoin_uri.address
    IN IF ~IsOk(response) THEN Continue
       ELSE LET processed == process_response(response.ok, empty_is_none)
            IN IF ~IsOk(processed)
               THEN Finish("done",
                           << PayjoinPaymentFailed(receiver, tk.amount_to_send,
                                                   processed.err) >>,
                           {}, transactions, registered)
               ELSE IF ~IsSome(processed.ok) THEN Continue
               ELSE LET f == finalise_payjoin_transaction(
                                 processed.ok.some, tk.payjoin_uri, sign_ok, wallet_fault)
                    IN IF f.panicked
                       THEN Finish("panicked", << >>, {}, transactions, registered)
                       ELSE IF IsOk(f.result)
                       THEN Finish("done",
                                   << PayjoinPaymentPending(txid_of(f.result.ok),
                                                            tk.amount_to_send, receiver) >>,
                                   {f.result.ok}, f.transactions, f.registered)
                       ELSE Finish("done",
                                   << PayjoinPaymentFailed(receiver, tk.amount_to_send,
                                                           f.result.err) >>,
                                   {}, transactions, registered)

\* The sleep created by the pass of the loop that starts at time `at`.
sleep_deadline(at) == at + PAYJOIN_REQUEST_TOTAL_DURATION

\* select! takes the sleep branch.
TimeoutFires(t, timed) ==
    /\ task[t].pc = "select"
    /\ timed => now >= task[t].sleep_at
    /\ LET ev == PayjoinPaymentFailed(task[t].payjoin_uri.address,
                                      task[t].amount_to_send, TimeoutReason)
       IN /\ event_queue' = Append(event_queue, ev)
          /\ task_log' = [task_log EXCEPT ![t].events = Append(@, ev)]
    /\ task' = [task EXCEPT ![t].pc = "done"]
    /\ UNCHANGED << runtime, sender, overflow_checks, best_known_block, transactions,
                    poisoned, registered, broadcasted, calls, now, chain_log, rx, conc, payjoin_sender >>

\* select! takes the tick branch: the request is built and posted.
\* request_ok: RequestBuilder ... extract_v2 answers Ok; the code unwraps it.
\* With the clock, a pass that finds both branches ready takes the sleep
\* branch: of the orders select! may poll them in, the one that ends soonest.
TickFires(t, request_ok, timed) ==
    /\ task[t].pc = "select"
    /\ timed => (now >= task[t].tick_at /\ now < task[t].sleep_at)
    /\ task' = [task EXCEPT ![t] =
                   IF ~request_ok THEN [@ EXCEPT !.pc = "panicked"]
                   ELSE [@ EXCEPT !.pc = "http",
                                  !.tick_at = IF timed THEN @ + PAYJOIN_RETRY_INTERVAL ELSE 0,
                                  !.http_by = IF timed THEN now + PAYJOIN_REQUEST_TIMEOUT ELSE 0]]
    /\ UNCHANGED << runtime, sender, overflow_checks, best_known_block, transactions,
                    poisoned, event_queue, registered, broadcasted, calls, task_log, now, chain_log, rx, conc, payjoin_sender >>

EmptySuccess(outcome) ==
    outcome.kind = "response" /\ outcome.status = 200 /\ outcome.body.kind = "empty"

\* The POST returns and the rest of the tick branch runs.
HttpReturns(t, outcome, empty_is_none, sign_ok, wallet_fault, timed) ==
    /\ task[t].pc = "http"
    /\ timed => (outcome.kind = "timeout" => now >= task[t].http_by)
    /\ LET r == tick_branch(task[t], outcome, empty_is_none, sign_ok, wallet_fault)
       IN /\ task' = [task EXCEPT ![t].pc = r.pc,
                                  ![t].sleep_at = IF timed THEN sleep_deadline(now) ELSE 0,
                                  ![t].http_by = 0]
          /\ event_queue' = event_queue \o r.events
          /\ broadcasted' = broadcasted \cup r.broadcast
          /\ transactions' = r.transactions
          /\ registered' = r.registered
          /\ task_log' = [task_log EXCEPT
                             ![t].events = @ \o r.events,
                             ![t].other_poll =
                                 @ \/ (timed /\ ~(EmptySuccess(outcome) /\ empty_is_none))]
    /\ UNCHANGED << runtime, sender, overflow_checks, best_known_block, poisoned,
                    calls, now, chain_log, rx, conc, payjoin_sender >>

\* Time passes.  A POST returns within PAYJOIN_REQUEST_TIMEOUT; the runtime
\* polls a task whose timer is due within MaxLag.
due_at(tk) == IF tk.tick_at <= tk.sleep_at THEN tk.tick_at ELSE tk.sleep_at

Tick ==
    /\ now < MaxTime
    /\ \E t \in Tasks : task[t].pc \in {"select", "http"}
    /\ \A t \in Tasks :
          /\ task[t].pc = "http" => now < task[t].http_by
          /\ task[t].pc = "select" => now < due_at(task[t]) + MaxLag
    /\ now' = now + 1
    /\ UNCHANGED << runtime, sender, overflow_checks, best_known_block, transactions,
                    poisoned, event_queue, registered, broadcasted, task, calls,
                    task_log, chain_log, rx, conc, payjoin_sender >>

(***************************************************************************)
(* The receiver: Receiver::handle_pj_request of src/payjoin.rs.  The       *)
(* checks, coin selection and finalisation belong to the payjoin crate and *)
(* the wallet: what they answer is an input of the step that calls them.   *)
(* The handler unwraps every answer, so an Err ends it in a panic.         *)
(***************************************************************************)
StageOrder ==
    << "Unchecked", "BroadcastChecked", "InputsNotOwnedChecked",
       "UniformScriptsChecked", "InputsUnseenChecked", "OutputsIdentified",
       "Provisional", "Finalized" >>

OriginalPsbts == {"psbtA", "psbtB"}

\* The previous outputs that the inputs of an original PSBT spend.
previous_outputs(psbt) == IF psbt = "psbtA" THEN {"spentA:0"} ELSE {"spentB:0"}

\* bdk::LocalUtxo
LocalUtxo(outpoint, value, script) ==
    [outpoint |-> outpoint, txout |-> [value |-> value, script_pubkey |-> script]]

\* The wallet's spendable outputs; two of them have the same value.
WalletUtxos ==
    {LocalUtxo("o1", 1000, "spk1"), LocalUtxo("o2", 1000, "spk2"),
     LocalUtxo("o3", 2000, "spk3")}

UnspentLists == {q \in SeqsUpTo(WalletUtxos, MaxUnspent) : NoRepeat(q)}

\* What the peer is sent when the handler panics: nothing.
NoResponse == None

NoRequest ==
    [pc |-> "none", stages |-> << >>, psbt |-> None, unspent |-> << >>,
     selected |-> None, contributed |-> << >>, substituted |-> None,
     mutated_in |-> {}, failed_at |-> "", detail |-> "", response |-> NoResponse,
     earlier |-> {}]

panic_answers_detail(r, call, detail) ==
    [r EXCEPT !.pc = "panicked", !.failed_at = call, !.detail = detail,
              !.response = Some(detail)]

\* .unwrap() on an Err: the handler's task panics with the error as its
\* message and nothing is returned to axum.
panic(r, call, detail) ==
    [r EXCEPT !.pc = "panicked", !.failed_at = call, !.detail = detail,
              !.response = NoResponse]

\* The checks of payjoin::receive: each consumes the proposal of one type and
\* answers the proposal of the next, or an error that names the check.
UncheckedProposal_from_request(psbt, verdict) ==
    IF verdict THEN Ok(<< "Unchecked" >>) ELSE Err("from_request: bad request")

check_broadcast_suitability(stages, verdict) ==
    IF verdict THEN Ok(Append(stages, "BroadcastChecked"))
    ELSE Err("original PSBT not broadcastable")

check_inputs_not_owned(stages, verdict) ==
    IF verdict THEN Ok(Append(stages, "InputsNotOwnedChecked"))
    ELSE Err("input owned by the receiver")

check_no_mixed_input_scripts(stages, verdict) ==
    IF verdict THEN Ok(Append(stages, "UniformScriptsChecked"))
    ELSE Err("mixed input scripts")

check_no_inputs_seen_before_skipped(stages, verdict) ==
    IF verdict THEN Ok(stages) ELSE Err("input seen before")

check_no_inputs_seen_before(stages, verdict) ==
    IF verdict THEN Ok(Append(stages, "InputsUnseenChecked"))
    ELSE Err("input seen before")

\* identify_receiver_outputs answers the ProvisionalProposal: the proposal
\* with its outputs identified is the one that is then changed.
identify_receiver_outputs(stages, verdict) ==
    IF verdict THEN Ok(stages \o << "OutputsIdentified", "Provisional" >>)
    ELSE Err("no output pays the receiver")

finalize_proposal(stages, verdict) ==
    IF verdict THEN Ok(Append(stages, "Finalized"))
    ELSE Err("finalize_proposal: PSBT not well formed")

\* One statement `let next = call(..).unwrap();` of the handler.
unwrap(r, call, result, next) ==
    IF IsOk(result) THEN [r EXCEPT !.pc = next, !.stages = result.ok]
    ELSE panic(r, call, result.err)

\* candidate_inputs: the HashMap from value to outpoint collected from the
\* list; of the outputs with one value the map keeps the last.
candidate_inputs(unspent) ==
    {unspent[i].outpoint :
        i \in {j \in DOMAIN unspent :
                  \A k \in DOMAIN unspent :
                      unspent[k].txout.value = unspent[j].txout.value => k <= j}}

\* What try_preserving_privacy can answer: one of the candidates, or an
\* error when it finds none safe (always, when there is none).
Selections(unspent) == {Err("no candidate")} \cup {Ok(o) : o \in candidate_inputs(unspent)}

find(unspent, outpoint) ==
    LET found == {i \in DOMAIN unspent : unspent[i].outpoint = outpoint}
    IN IF found = {} THEN None
       ELSE Some(unspent[CHOOSE i \in found : \A j \in found : i <= j])

\* Receiver::try_contributing_inputs
try_contributing_inputs_first_txout(r, unspent, selection) ==
    IF ~IsOk(selection)
    THEN panic([r EXCEPT !.selected = Some(selection)], "try_preserving_privacy",
               selection.err)
    ELSE [r EXCEPT !.selected = Some(selection),
                   !.contributed = Append(@, [outpoint |-> selection.ok,
                                              txout |-> unspent[1].txout]),
                   !.mutated_in = @ \cup {r.stages[Len(r.stages)]},
                   !.pc = "get_new_address"]

try_contributing_inputs(r, unspent, selection) ==
    IF ~IsOk(selection)
    THEN panic([r EXCEPT !.selected = Some(selection)], "try_preserving_privacy",
               selection.err)
    ELSE LET selected_utxo == find(unspent, selection.ok)
         IN IF ~IsSome(selected_utxo)
            THEN panic([r EXCEPT !.selected = Some(selection)], "find", "None")
            ELSE [r EXCEPT !.selected = Some(selection),
                           !.contributed =
                               Append(@, [outpoint |-> selected_utxo.some.outpoint,
                                          txout |-> selected_utxo.some.txout]),
                           !.mutated_in = @ \cup {r.stages[Len(r.stages)]},
                           !.pc = "get_new_address"]

\* PayjoinProposal::psbt().to_string()
Psbt_to_string(r) ==
    << "psbt", r.psbt.some, r.contributed, r.substituted >>

sender_vars ==
    << runtime, sender, overflow_checks, best_known_block, transactions, poisoned,
       event_queue, registered, broadcasted, task, calls, task_log, now, chain_log,
       conc, payjoin_sender >>

\* The callbacks of lines 95 and 97: |tx| Ok(true) and |input| Ok(true).
can_broadcast(tx) == TRUE

is_owned(input) == TRUE

\* The inputs of the requests parsed so far.  The handler keeps no such
\* record (its state is the wallet, lines 76-78): `earlier` is history, read
\* by no step.
inputs_of_requests(r) ==
    r.earlier \cup (IF IsSome(r.psbt) /\ Len(r.stages) > 0
                    THEN previous_outputs(r.psbt.some) ELSE {})

\* Lines 85-89: a request arrives, its body is collected and parsed.
FromRequest(psbt, collect_ok, parse_ok) ==
    /\ rx.pc \in {"none", "responded", "panicked"}
    /\ LET request == [NoRequest EXCEPT !.earlier = inputs_of_requests(rx)]
       IN rx' = IF ~collect_ok
                THEN panic(request, "collect", "body: connection error")
                ELSE unwrap([request EXCEPT !.psbt = Some(psbt)], "from_request",
                            UncheckedProposal_from_request(psbt, parse_ok),
                            "check_broadcast_suitability")
    /\ UNCHANGED sender_vars

CheckBroadcastSuitability(verdict) ==
    /\ rx.pc = "check_broadcast_suitability"
    /\ rx' = unwrap(rx, rx.pc, check_broadcast_suitability(rx.stages, verdict),
                    "check_inputs_not_owned")
    /\ UNCHANGED sender_vars

CheckInputsNotOwned(verdict) ==
    /\ rx.pc = "check_inputs_not_owned"
    /\ rx' = unwrap(rx, rx.pc, check_inputs_not_owned(rx.stages, verdict),
                    "check_no_mixed_input_scripts")
    /\ UNCHANGED sender_vars

CheckNoMixedInputScripts(verdict) ==
    /\ rx.pc = "check_no_mixed_input_scripts"
    /\ rx' = unwrap(rx, rx.pc, check_no_mixed_input_scripts(rx.stages, verdict),
                    "check_no_inputs_seen_before")
    /\ UNCHANGED sender_vars

CheckNoInputsSeenBefore(verdict) ==
    /\ rx.pc = "check_no_inputs_seen_before"
    /\ rx' = unwrap(rx, rx.pc, check_no_inputs_seen_before(rx.stages, verdict),
                    "identify_receiver_outputs")
    /\ UNCHANGED sender_vars

IdentifyReceiverOutputs(verdict) ==
    /\ rx.pc = "identify_receiver_outputs"
    /\ rx' = unwrap(rx, rx.pc, identify_receiver_outputs(rx.stages, verdict),
                    "list_unspent")
    /\ UNCHANGED sender_vars

\* wallet.list_unspent().unwrap()
ListUnspent(result) ==
    /\ rx.pc = "list_unspent"
    /\ rx' = IF IsOk(result)
             THEN [rx EXCEPT !.unspent = result.ok, !.pc = "try_contributing_inputs"]
             ELSE panic(rx, rx.pc, result.err)
    /\ UNCHANGED sender_vars

\* let _ = Self::try_contributing_inputs(&mut prov_proposal, unspent);
TryContributingInputs(selection) ==
    /\ rx.pc = "try_contributing_inputs"
    /\ rx' = try_contributing_inputs(rx, rx.unspent, selection)
    /\ UNCHANGED sender_vars

\* wallet.get_new_address().unwrap() and substitute_output_address
SubstituteOutputAddress(result) ==
    /\ rx.pc = "get_new_address"
    /\ rx' = IF IsOk(result)
             THEN [rx EXCEPT !.substituted = Some(result.ok),
                             !.mutated_in = @ \cup {rx.stages[Len(rx.stages)]},
                             !.pc = "finalize_proposal"]
             ELSE panic(rx, rx.pc, result.err)
    /\ UNCHANGED sender_vars

\* finalize_proposal(|psbt| Ok(wallet.wallet_process_psbt(psbt).unwrap()), ..)
\* .unwrap(), then the handler returns the proposal's PSBT as a string.
FinalizeProposal(process_ok, verdict) ==
    /\ rx.pc = "finalize_proposal"
    /\ rx' = IF ~process_ok
             THEN panic(rx, "wallet_process_psbt", "wallet: cannot sign")
             ELSE LET r == unwrap(rx, rx.pc, finalize_proposal(rx.stages, verdict),
                                  "responded")
                  IN IF r.pc = "responded"
                     THEN [r EXCEPT !.response = Some(Psbt_to_string(r))]
                     ELSE r
    /\ UNCHANGED sender_vars

(***************************************************************************)
(* PayjoinHandler's operations statement by statement, called from several *)
(* threads: the two RwLocks (best_known_block, transactions) and the calls *)
(* to the collaborators.  A guard that is a temporary of one statement is  *)
(* taken and released within that statement; the guard bound by `let mut   *)
(* transactions` is held until the function returns.                       *)
(***************************************************************************)
Threads == 1..MaxThreads

NoThread == [pc |-> "idle", op |-> "none", held |-> {}, external |-> {}]

NoOperations == [thread |-> [th \in Threads |-> NoThread], finalisations |-> 0]

\* No guard of the lock is alive in any thread: a write guard is held under
\* the lock's name, a read guard under read(lock).
read(lock) == IF lock = "transactions" THEN "transactions.read"
              ELSE "best_known_block.read"

WriteFree(lock) ==
    \A th \in Threads : conc.thread[th].held \cap {lock, read(lock)} = {}

\* A call to a collaborator, with the locks the calling thread holds.
external(me, call) == [me EXCEPT !.external = @ \cup {[call |-> call, held |-> me.held]}]

\* The URI of the negotiation that received the proposal.
NegotiatedUris ==
    {Uri_try_from(u).ok : u \in {v \in UriStrings : IsOk(Uri_try_from(v))
                                                     /\ IsSome(v.amount)}}

\* The statement after each statement of finalise_payjoin_transaction and of
\* the Ok arm of the task that called it.
after_registers_first(pc) ==
    CASE pc = "sign" -> "find"
      [] pc = "find" -> "read_tip"
      [] pc = "read_tip" -> "register"
      [] pc = "register" -> "push"
      [] pc = "push" -> "broadcast"
      [] pc = "broadcast" -> "pending_event"
      [] pc = "pending_event" -> "idle"

after(pc) ==
    CASE pc = "sign" -> "find"
      [] pc = "find" -> "read_tip"
      [] pc = "read_tip" -> "push"
      [] pc = "push" -> "register"
      [] pc = "register" -> "broadcast"
      [] pc = "broadcast" -> "pending_event"
      [] pc = "pending_event" -> "idle"

\* The frame of a statement: it changes the thread and what it names.
Thread(th, me) == conc' = [conc EXCEPT !.thread[th] = me]

handler_frame ==
    UNCHANGED << runtime, sender, overflow_checks, task, calls, task_log, now,
                 chain_log, rx, payjoin_sender >>

\* A thread enters best_block_updated.
StartBestBlockUpdated(th, header, height) ==
    /\ conc.thread[th].pc = "idle"
    /\ Thread(th, [pc |-> "write_tip", op |-> "best_block_updated", held |-> {},
                   external |-> {}, header |-> header, height |-> height])
    /\ UNCHANGED << best_known_block, transactions, poisoned, event_queue, registered,
                    broadcasted >>
    /\ handler_frame

WriteTip_keeps_guard(th) ==
    LET me == conc.thread[th]
    IN /\ me.pc = "write_tip"
       /\ WriteFree("best_known_block")
       /\ best_known_block' = Some([height |-> me.height,
                                    block_hash |-> block_hash(me.header)])
       /\ Thread(th, [me EXCEPT !.pc = "lock_transactions",
                                !.held = {"best_known_block"}])
       /\ UNCHANGED << transactions, poisoned, event_queue, registered, broadcasted >>
       /\ handler_frame

\* handler.rs:199-200
WriteTip(th) ==
    LET me == conc.thread[th]
    IN /\ me.pc = "write_tip"
       /\ WriteFree("best_known_block")
       /\ best_known_block' = Some([height |-> me.height,
                                    block_hash |-> block_hash(me.header)])
       /\ Thread(th, [me EXCEPT !.pc = "lock_transactions"])
       /\ UNCHANGED << transactions, poisoned, event_queue, registered, broadcasted >>
       /\ handler_frame

\* let mut transactions = self.transactions.write().unwrap();
\* handler.rs:201 and handler.rs:147
LockTransactions(th) ==
    LET me == conc.thread[th]
    IN /\ me.pc = "lock_transactions"
       /\ WriteFree("transactions")
       /\ Thread(th, IF poisoned THEN [me EXCEPT !.pc = "panicked"]
                     ELSE [me EXCEPT !.held = @ \cup {"transactions"},
                                     !.pc = IF me.op = "best_block_updated"
                                            THEN "retain" ELSE "advance"])
       /\ UNCHANGED << best_known_block, transactions, poisoned, event_queue, registered,
                       broadcasted >>
       /\ handler_frame

\* handler.rs:202-217: add_event is called from the closure of retain.
Retain(th) ==
    LET me == conc.thread[th]
        r == retain(transactions, me.height, overflow_checks)
        called == IF r.events = << >> THEN me ELSE external(me, "add_event")
    IN /\ me.pc = "retain"
       /\ transactions' = r.kept
       /\ event_queue' = event_queue \o r.events
       /\ poisoned' = r.panicked
       /\ Thread(th, IF r.panicked
                     THEN [called EXCEPT !.pc = "panicked", !.held = {}]
                     ELSE [called EXCEPT !.pc = "return"])
       /\ UNCHANGED << best_known_block, registered, broadcasted >>
       /\ handler_frame

\* The function returns and its guard is dropped.
Return(th) ==
    LET me == conc.thread[th]
    IN /\ me.pc = "return"
       /\ Thread(th, NoThread)
       /\ UNCHANGED << best_known_block, transactions, poisoned, event_queue, registered,
                       broadcasted >>
       /\ handler_frame

\* A thread enters transactions_confirmed.
StartTransactionsConfirmed(th, header, txdata, height) ==
    /\ conc.thread[th].pc = "idle"
    /\ Thread(th, [pc |-> "index", op |-> "transactions_confirmed", held |-> {},
                   external |-> {}, header |-> header, txdata |-> txdata,
                   height |-> height])
    /\ UNCHANGED << best_known_block, transactions, poisoned, event_queue, registered,
                    broadcasted >>
    /\ handler_frame

\* let (_, tx) = txdata[0];  handler.rs:145
Index(th) ==
    LET me == conc.thread[th]
    IN /\ me.pc = "index"
       /\ Thread(th, [me EXCEPT !.pc = IF me.txdata = << >> THEN "panicked"
                                       ELSE "lock_transactions"])
       /\ UNCHANGED << best_known_block, transactions, poisoned, event_queue, registered,
                       broadcasted >>
       /\ handler_frame

\* handler.rs:148-172, with the lock held
Advance(th) ==
    LET me == conc.thread[th]
        r == internal_transactions_confirmed(transactions, me.header, me.txdata,
                                             me.height)
    IN /\ me.pc = "advance"
       /\ transactions' = r.transactions
       /\ poisoned' = r.poison
       /\ Thread(th, IF r.poison THEN [me EXCEPT !.pc = "panicked", !.held = {}]
                     ELSE [me EXCEPT !.pc = "return"])
       /\ UNCHANGED << best_known_block, event_queue, registered, broadcasted >>
       /\ handler_frame

\* A thread enters get_relevant_txids.
StartGetRelevantTxids(th) ==
    /\ conc.thread[th].pc = "idle"
    /\ Thread(th, [pc |-> "read_transactions", op |-> "get_relevant_txids",
                   held |-> {}, external |-> {}, txids |-> {}])
    /\ UNCHANGED << best_known_block, transactions, poisoned, event_queue, registered,
                    broadcasted >>
    /\ handler_frame

\* handler.rs:221-237: the read guard is taken and the txids are collected.
ReadTransactions(th) ==
    LET me == conc.thread[th]
    IN /\ me.pc = "read_transactions"
       /\ \A o \in Threads : "transactions" \notin conc.thread[o].held
       /\ Thread(th, IF poisoned THEN [me EXCEPT !.pc = "panicked"]
                     ELSE [me EXCEPT !.held = @ \cup {read("transactions")},
                                     !.txids = get_relevant_txids,
                                     !.pc = "return"])
       /\ UNCHANGED << best_known_block, transactions, poisoned, event_queue, registered,
                       broadcasted >>
       /\ handler_frame

\* A negotiation task has a proposal and enters finalise_payjoin_transaction.
StartFinalise(th, tx, payjoin_uri, sign_ok, wallet_fault) ==
    /\ conc.thread[th].pc = "idle"
    /\ conc.finalisations < MaxFinalisations
    /\ conc' = [conc EXCEPT
                   !.finalisations = @ + 1,
                   !.thread[th] =
                       [pc |-> "sign", op |-> "finalise_payjoin_transaction",
                        held |-> {}, external |-> {}, tx |-> tx,
                        payjoin_uri |-> payjoin_uri, sign_ok |-> sign_ok,
                        wallet_fault |-> wallet_fault, our_input |-> None,
                        tip |-> None, result |-> None]]
    /\ UNCHANGED << best_known_block, transactions, poisoned, event_queue, registered,
                    broadcasted >>
    /\ handler_frame

\* handler.rs:117-118
Sign(th) ==
    LET me == external(conc.thread[th], "sign_payjoin_proposal")
    IN /\ me.pc = "sign"
       /\ Thread(th, IF me.sign_ok THEN [me EXCEPT !.pc = after(me.pc)]
                     ELSE [me EXCEPT !.pc = "failed_event",
                                     !.result = Some(Err("WalletOperationFailed"))])
       /\ UNCHANGED << best_known_block, transactions, poisoned, event_queue, registered,
                       broadcasted >>
       /\ handler_frame

\* handler.rs:119-122, 137-139
FindOurOutput(th) ==
    LET me == external(conc.thread[th], "is_mine")
        our_input == find_our_output(me.tx, me.wallet_fault)
    IN /\ me.pc = "find"
       /\ Thread(th, IF IsSome(our_input)
                     THEN [me EXCEPT !.pc = after(me.pc), !.our_input = our_input]
                     ELSE [me EXCEPT
                              !.pc = "failed_event",
                              !.result =
                                  Some(Err("PayjoinReceiverRequestValidationFailed"))])
       /\ UNCHANGED << best_known_block, transactions, poisoned, event_queue, registered,
                       broadcasted >>
       /\ handler_frame

\* handler.rs:123-127
ReadTip(th) ==
    LET me == conc.thread[th]
    IN /\ me.pc = "read_tip"
       /\ WriteFree("best_known_block")
       /\ Thread(th, IF IsSome(best_known_block)
                     THEN [me EXCEPT !.pc = after(me.pc), !.tip = best_known_block]
                     ELSE [me EXCEPT
                              !.pc = "failed_event",
                              !.result =
                                  Some(Err("PayjoinReceiverRequestValidationFailed"))])
       /\ UNCHANGED << best_known_block, transactions, poisoned, event_queue, registered,
                       broadcasted >>
       /\ handler_frame

\* handler.rs:128-134
Push(th) ==
    LET me == conc.thread[th]
    IN /\ me.pc = "push"
       /\ WriteFree("transactions")
       /\ IF poisoned
          THEN /\ Thread(th, [me EXCEPT !.pc = "panicked"])
               /\ UNCHANGED transactions
          ELSE /\ transactions' =
                      Append(transactions,
                             PendingFirstConfirmation(
                                 me.tx, me.payjoin_uri.address,
                                 IF IsSome(me.payjoin_uri.amount)
                                 THEN me.payjoin_uri.amount.some ELSE 0,
                                 me.tip.some.height, me.tip.some.block_hash))
               /\ Thread(th, [me EXCEPT !.pc = after(me.pc)])
       /\ UNCHANGED << best_known_block, poisoned, event_queue, registered, broadcasted >>
       /\ handler_frame

\* handler.rs:135-136
Register(th) ==
    LET me == external(conc.thread[th], "register_tx")
    IN /\ me.pc = "register"
       /\ registered' = registered \cup {<< txid_of(me.tx), me.our_input.some >>}
       /\ Thread(th, [me EXCEPT !.pc = after(me.pc), !.result = Some(Ok(me.tx))])
       /\ UNCHANGED << best_known_block, transactions, poisoned, event_queue,
                       broadcasted >>
       /\ handler_frame

\* mod.rs:171
Broadcast(th) ==
    LET me == external(conc.thread[th], "broadcast_transactions")
    IN /\ me.pc = "broadcast"
       /\ broadcasted' = broadcasted \cup {me.tx}
       /\ Thread(th, [me EXCEPT !.pc = after(me.pc)])
       /\ UNCHANGED << best_known_block, transactions, poisoned, event_queue,
                       registered >>
       /\ handler_frame

\* mod.rs:172-178
PendingEvent(th) ==
    LET me == external(conc.thread[th], "add_event")
    IN /\ me.pc = "pending_event"
       /\ event_queue' =
              Append(event_queue,
                     PayjoinPaymentPending(txid_of(me.tx), me.payjoin_uri.amount.some,
                                           me.payjoin_uri.address))
       /\ Thread(th, IF after(me.pc) = "idle" THEN NoThread
                     ELSE [me EXCEPT !.pc = after(me.pc)])
       /\ UNCHANGED << best_known_block, transactions, poisoned, registered,
                       broadcasted >>
       /\ handler_frame

\* mod.rs:180-188
FailedEvent(th) ==
    LET me == external(conc.thread[th], "add_event")
    IN /\ me.pc = "failed_event"
       /\ event_queue' =
              Append(event_queue,
                     PayjoinPaymentFailed(me.payjoin_uri.address,
                                          me.payjoin_uri.amount.some,
                                          me.result.some.err))
       /\ Thread(th, NoThread)
       /\ UNCHANGED << best_known_block, transactions, poisoned, registered,
                       broadcasted >>
       /\ handler_frame

(***************************************************************************)
(* The specifications.                                                     *)
(***************************************************************************)
Init ==
    /\ runtime \in BOOLEAN
    /\ sender \in BOOLEAN
    /\ overflow_checks \in BOOLEAN
    /\ best_known_block = None
    /\ transactions = << >>
    /\ poisoned = FALSE
    /\ event_queue = << >>
    /\ registered = {}
    /\ broadcasted = {}
    /\ task = [t \in Tasks |-> NoTask]
    /\ calls = << >>
    /\ task_log = [t \in Tasks |-> NoLog]
    /\ now = 0
    /\ chain_log = NoChainLog
    /\ rx = NoRequest
    /\ conc = NoOperations
    /\ payjoin_sender = NoProposal

Txdatas == {q \in SeqsUpTo(Confirmable, MaxTxdata) : NoRepeat(q)}

Next ==
    \/ \E s \in UriStrings, b \in BOOLEAN : Send(s, b, FALSE)
    \/ \E s \in UriStrings, a \in Amounts, b \in BOOLEAN : SendWithAmount(s, a, b, FALSE)
    \/ \E t \in Tasks : TimeoutFires(t, FALSE)
    \/ \E t \in Tasks, b \in BOOLEAN : TickFires(t, b, FALSE)
    \/ \E t \in Tasks, a \in AskedAnswers :
           HttpReturns(t, a.outcome, a.empty_is_none, a.sign_ok, a.wallet_fault, FALSE)
    \/ \E h \in Headers, q \in Txdatas, n \in Heights : TransactionsConfirmed(h, q, n)
    \/ \E h \in Headers, n \in Heights : BestBlockUpdated(h, n)

Spec == Init /\ [][Next]_vars

\* The same program with the clock running, for the claims about the timers
\* of a negotiation task: one call of send, timed from its start.
NextTimed ==
    \/ \E s \in UriStrings, b \in BOOLEAN : Send(s, b, TRUE)
    \/ \E t \in Tasks : TimeoutFires(t, TRUE)
    \/ \E t \in Tasks, b \in BOOLEAN : TickFires(t, b, TRUE)
    \/ \E t \in Tasks, a \in AskedAnswers :
           HttpReturns(t, a.outcome, a.empty_is_none, a.sign_ok, a.wallet_fault, TRUE)
    \/ \E h \in Headers, n \in Heights : BestBlockUpdated(h, n)
    \/ Tick

SpecTimed == Init /\ [][NextTimed]_vars

\* The same program with one call of send or send_with_amount, whose amount
\* argument may differ from the amount of the URI, followed through its task
\* and the tracker.
NextAmounts ==
    \/ \E s \in UriStrings, b \in BOOLEAN : calls = << >> /\ Send(s, b, FALSE)
    \/ \E s \in UriStrings, a \in AmountArgs, b \in BOOLEAN :
           calls = << >> /\ SendWithAmount(s, a, b, FALSE)
    \/ \E t \in Tasks : TimeoutFires(t, FALSE)
    \/ \E t \in Tasks, b \in BOOLEAN : TickFires(t, b, FALSE)
    \/ \E t \in Tasks, a \in AskedAnswers :
           HttpReturns(t, a.outcome, a.empty_is_none, a.sign_ok, a.wallet_fault, FALSE)
    \/ \E h \in Headers, q \in Txdatas, n \in Heights : TransactionsConfirmed(h, q, n)
    \/ \E h \in Headers, n \in Heights : BestBlockUpdated(h, n)

SpecAmounts == Init /\ [][NextAmounts]_vars

\* The same program with the history of the chain notifications kept, and
\* with the notification of a transaction that left the chain.
InitChain ==
    /\ runtime \in BOOLEAN
    /\ sender \in BOOLEAN
    /\ overflow_checks \in BOOLEAN
    /\ best_known_block = None
    /\ transactions = << >>
    /\ poisoned = FALSE
    /\ event_queue = << >>
    /\ registered = {}
    /\ broadcasted = {}
    /\ task = [t \in Tasks |-> NoTask]
    /\ calls = << >>
    /\ task_log = [t \in Tasks |-> NoLog]
    /\ now = 0
    /\ chain_log = EmptyChainLog
    /\ rx = NoRequest
    /\ conc = NoOperations
    /\ payjoin_sender = NoProposal

NextChain ==
    \/ Next
    \/ \E tx \in ProposalTxs : TransactionUnconfirmed(txid_of(tx))

SpecChain == InitChain /\ [][NextChain]_vars

\* The tracker with one call of send, the history of the chain notifications
\* kept, and blocks that hold one more transaction than those of Txdatas.
Blocks == {q \in SeqsUpTo(Confirmable, MaxTxdata + 1) : NoRepeat(q)}

NextTracker ==
    \/ \E s \in UriStrings, b \in BOOLEAN : calls = << >> /\ Send(s, b, FALSE)
    \/ \E t \in Tasks : TimeoutFires(t, FALSE)
    \/ \E t \in Tasks, b \in BOOLEAN : TickFires(t, b, FALSE)
    \/ \E t \in Tasks, a \in AskedAnswers :
           HttpReturns(t, a.outcome, a.empty_is_none, a.sign_ok, a.wallet_fault, FALSE)
    \/ \E h \in Headers, q \in Blocks, n \in Heights : TransactionsConfirmed(h, q, n)
    \/ \E h \in Headers, n \in Heights : BestBlockUpdated(h, n)
    \/ \E tx \in ProposalTxs : TransactionUnconfirmed(txid_of(tx))

SpecTracker == InitChain /\ [][NextTracker]_vars

\* The tracker with an event queue that can refuse the events of a sweep.
NextQueue ==
    \/ NextTracker
    \/ \E h \in Headers, n \in Heights : BestBlockUpdatedWith(h, n, FALSE)

SpecQueue == InitChain /\ [][NextQueue]_vars

\* The handler called from several threads.
InitLocks == Init /\ runtime /\ sender

NextLocks ==
    \/ \E th \in Threads, h \in Headers, n \in Heights : StartBestBlockUpdated(th, h, n)
    \/ \E th \in Threads : WriteTip(th)
    \/ \E th \in Threads : LockTransactions(th)
    \/ \E th \in Threads : Retain(th)
    \/ \E th \in Threads : Return(th)
    \/ \E th \in Threads, h \in Headers, q \in Txdatas, n \in Heights :
           StartTransactionsConfirmed(th, h, q, n)
    \/ \E th \in Threads : Index(th)
    \/ \E th \in Threads : Advance(th)
    \/ \E th \in Threads, tx \in ProposalTxs, u \in NegotiatedUris, g, w \in BOOLEAN :
           StartFinalise(th, tx, u, g, w)
    \/ \E th \in Threads : Sign(th)
    \/ \E th \in Threads : FindOurOutput(th)
    \/ \E th \in Threads : ReadTip(th)
    \/ \E th \in Threads : Push(th)
    \/ \E th \in Threads : Register(th)
    \/ \E th \in Threads : Broadcast(th)
    \/ \E th \in Threads : PendingEvent(th)
    \/ \E th \in Threads : FailedEvent(th)

SpecLocks == InitLocks /\ [][NextLocks]_vars

\* All four operations of the handler, from several threads.  The tip is
\* notified at a low height and at one ANTI_REORG_DELAY above it, in any
\* order; confirmations are in the block of the higher one, so that a sweep
\* can find a first confirmation above its height.  A finalisation that fails
\* before its first access to a lock (signing, no output of ours) is left out.
NextOperations ==
    \/ \E th \in Threads, h \in Headers, n \in {1, 1 + ANTI_REORG_DELAY} :
           StartBestBlockUpdated(th, h, n)
    \/ \E th \in Threads : WriteTip(th)
    \/ \E th \in Threads : LockTransactions(th)
    \/ \E th \in Threads : Retain(th)
    \/ \E th \in Threads : Return(th)
    \/ \E th \in Threads, h \in Headers, q \in {<< >>, << TxPaysUs >>} :
           StartTransactionsConfirmed(th, h, q, 1 + ANTI_REORG_DELAY)
    \/ \E th \in Threads : Index(th)
    \/ \E th \in Threads : Advance(th)
    \/ \E th \in Threads, u \in NegotiatedUris :
           StartFinalise(th, TxPaysUs, u, TRUE, FALSE)
    \/ \E th \in Threads : Sign(th)
    \/ \E th \in Threads : FindOurOutput(th)
    \/ \E th \in Threads : ReadTip(th)
    \/ \E th \in Threads : Push(th)
    \/ \E th \in Threads : Register(th)
    \/ \E th \in Threads : Broadcast(th)
    \/ \E th \in Threads : PendingEvent(th)
    \/ \E th \in Threads : FailedEvent(th)
    \/ \E th \in Threads : StartGetRelevantTxids(th)
    \/ \E th \in Threads : ReadTransactions(th)

SpecOperations == InitLocks /\ [][NextOperations]_vars

\* Negotiations finishing on several threads while the chain source notifies.
\* A notification takes the transactions lock before it first touches the
\* tracked set and holds it until it returns (handler.rs:147, handler.rs:201),
\* and the finalisation touches the set in its one push (handler.rs:128), so
\* here a notification is one step.
NextNegotiation ==
    \/ \E h \in Headers, n \in Heights : BestBlockUpdated(h, n)
    \/ \E h \in Headers, q \in Txdatas, n \in Heights : TransactionsConfirmed(h, q, n)
    \/ \E th \in Threads, tx \in ProposalTxs, u \in NegotiatedUris, g, w \in BOOLEAN :
           StartFinalise(th, tx, u, g, w)
    \/ \E th \in Threads : Sign(th)
    \/ \E th \in Threads : FindOurOutput(th)
    \/ \E th \in Threads : ReadTip(th)
    \/ \E th \in Threads : Push(th)
    \/ \E th \in Threads : Register(th)
    \/ \E th \in Threads : Broadcast(th)
    \/ \E th \in Threads : PendingEvent(th)
    \/ \E th \in Threads : FailedEvent(th)

SpecNegotiation == InitLocks /\ [][NextNegotiation]_vars

\* PayjoinSender finalising the proposal of one response.
NextSender ==
    \/ \E o \in SenderPsbts, q \in ProposalPsbts : ReattachOriginalInputs(o, q)
    \/ \E g \in SignResults : SignTransaction(g)

SpecSender == InitLocks /\ [][NextSender]_vars

\* The receiver serving requests, one after the other.
NextReceiver ==
    \/ \E p \in OriginalPsbts, c \in BOOLEAN, b \in BOOLEAN : FromRequest(p, c, b)
    \/ \E b \in BOOLEAN : CheckBroadcastSuitability(b)
    \/ \E b \in BOOLEAN : CheckInputsNotOwned(b)
    \/ \E b \in BOOLEAN : CheckNoMixedInputScripts(b)
    \/ \E b \in BOOLEAN : CheckNoInputsSeenBefore(b)
    \/ \E b \in BOOLEAN : IdentifyReceiverOutputs(b)
    \/ \E q \in {Ok(u) : u \in UnspentLists} \cup {Err("wallet: list_unspent")} :
           ListUnspent(q)
    \/ \E q \in Selections(rx.unspent) : TryContributingInputs(q)
    \/ \E q \in {Ok("addrNew"), Err("wallet: get_new_address")} :
           SubstituteOutputAddress(q)
    \/ \E w \in BOOLEAN, b \in BOOLEAN : FinalizeProposal(w, b)

SpecReceiver == Init /\ [][NextReceiver]_vars

\* The receiver with the callbacks that handle_pj_request passes: a check
\* passes when the crate has no objection of its own and the callback has
\* none.  No request gets past check_inputs_not_owned, whose callback answers
\* "owned" for every input, so the statements after line 97 never run.
NextPolicy ==
    \/ \E p \in OriginalPsbts, c \in BOOLEAN, b \in BOOLEAN : FromRequest(p, c, b)
    \/ \E b \in BOOLEAN :
           CheckBroadcastSuitability(b /\ can_broadcast(rx.psbt.some))
    \/ \E b \in BOOLEAN :
           CheckInputsNotOwned(b /\ \A input \in previous_outputs(rx.psbt.some) :
                                        ~is_owned(input))

SpecPolicy == Init /\ [][NextPolicy]_vars

(***************************************************************************)
(* The claims.                                                             *)
(***************************************************************************)
Last(q) == q[Len(q)]
Added(q, r) == SubSeq(r, Len(q) + 1, Len(r))
IsSuccess(ev) == ev.kind = "PayjoinPaymentSuccess"
IsPending(ev) == ev.kind = "PayjoinPaymentPending"
IsFailed(ev) == ev.kind = "PayjoinPaymentFailed"
Ended(t) == task[t].pc \in {"done", "panicked"}

\* C1: a task whose every poll returned a success status with an empty body,
\* taken as "no proposal yet", has ended once PAYJOIN_REQUEST_TOTAL_DURATION
\* has elapsed since its start (plus the time one POST and one scheduling
\* delay can take), and it ends with exactly one PayjoinPaymentFailed event,
\* the time-out one, and no other event.
C1_Deadline(t) ==
    task[t].started_at + PAYJOIN_REQUEST_TOTAL_DURATION
        + PAYJOIN_REQUEST_TIMEOUT + MaxLag

C1_TimesOutOnEmptyBodies ==
    \A t \in Tasks :
        (task[t].pc \in {"select", "http", "done"} /\ ~task_log[t].other_poll) =>
            /\ now > C1_Deadline(t) => task[t].pc = "done"
            /\ task[t].pc = "done" =>
                   task_log[t].events =
                       << PayjoinPaymentFailed(task[t].payjoin_uri.address,
                                               task[t].amount_to_send, TimeoutReason) >>
            /\ task[t].pc # "done" => task_log[t].events = << >>

\* C2: an entry becomes PendingThresholdConfirmations only in a
\* transactions_confirmed step whose txdata holds its transaction, and a
\* PayjoinPaymentSuccess event is added only in a tip update of height h for
\* an entry in PendingThresholdConfirmations with
\* h - first_confirmation_height >= ANTI_REORG_DELAY.
Range(q) == {q[i] : i \in DOMAIN q}

C2_AdvancedByConfirmation ==
    \A e \in Range(transactions') \ Range(transactions) :
        e.state = "PendingThresholdConfirmations" =>
            \E h \in Headers, q \in Txdatas, n \in Heights :
                /\ TransactionsConfirmed(h, q, n)
                /\ e.tx \in Range(q)
                /\ \E f \in Range(transactions) :
                       /\ f.state = "PendingFirstConfirmation"
                       /\ e = PendingThresholdConfirmations(f, n, block_hash(h))

C2_SuccessAtThreshold ==
    \A ev \in Range(Added(event_queue, event_queue')) :
        IsSuccess(ev) =>
            /\ IsSome(best_known_block')
            /\ \E e \in Range(transactions) :
                   /\ e.state = "PendingThresholdConfirmations"
                   /\ ev = PayjoinPaymentSuccess(e)
                   /\ best_known_block'.some.height - e.first_confirmation_height
                          >= ANTI_REORG_DELAY

C2_SuccessOnlyAfterDelay ==
    [][C2_AdvancedByConfirmation /\ C2_SuccessAtThreshold]_vars

\* C3: no transaction id has two PayjoinPaymentSuccess events in the event
\* queue, and a tip update delivered a second time adds no event and leaves
\* the tracked set as the first delivery left it.
C3_Redelivery ==
    \A h \in Headers, n \in Heights :
        LET once == retain(transactions, n, overflow_checks)
            twice == retain(once.kept, n, overflow_checks)
        IN (~once.panicked) => (twice.events = << >> /\ twice.kept = once.kept)

C3_AtMostOneSuccess ==
    /\ \A i, j \in DOMAIN event_queue :
           (IsSuccess(event_queue[i]) /\ IsSuccess(event_queue[j])
                /\ event_queue[i].txid = event_queue[j].txid) => i = j
    /\ C3_Redelivery

\* C4: a send that was given a usable proposal added exactly one
\* PayjoinPaymentPending event, with the txid of the finalised transaction
\* and the amount sent; every PayjoinPaymentSuccess event for that txid comes
\* later in the event queue and has the same txid, amount and recipient.
C4_PendingThenSuccess ==
    /\ \A t \in Tasks :
           (task[t].pc = "done" /\ \E ev \in Range(task_log[t].events) : IsPending(ev)) =>
               /\ Len(task_log[t].events) = 1
               /\ task_log[t].events[1].amount = task[t].amount_to_send
               /\ \E tx \in broadcasted : task_log[t].events[1].txid = txid_of(tx)
    /\ \A i, j \in DOMAIN event_queue :
           (IsPending(event_queue[i]) /\ IsSuccess(event_queue[j])
                /\ event_queue[i].txid = event_queue[j].txid) =>
               /\ i < j
               /\ event_queue[j].amount = event_queue[i].amount
               /\ event_queue[j].receipient = event_queue[i].receipient

\* C5: a task that has ended, however it ended, has added exactly one event,
\* a PayjoinPaymentPending or a PayjoinPaymentFailed; a task that has not
\* ended has added none.
C5_OneTerminalEvent ==
    \A t \in Tasks :
        /\ Ended(t) =>
               /\ Len(task_log[t].events) = 1
               /\ IsPending(task_log[t].events[1]) \/ IsFailed(task_log[t].events[1])
        /\ ~Ended(t) => task_log[t].events = << >>

\* C6: a send for a URI that parses, is for the configured network and
\* carries no amount answers PayjoinRequestMissingAmount at once: the wallet
\* is not asked to build the original transaction, no task is spawned (so no
\* POST is made) and no event is added.  PayjoinSender::create_payjoin_request
\* answers the same error, before building, when neither the argument nor the
\* URI has an amount.
MissingAmountUri(s) ==
    /\ IsOk(Uri_try_from(s))
    /\ IsOk(require_network(Uri_try_from(s).ok, ConfigNetwork))
    /\ ~IsSome(Uri_try_from(s).ok.amount)

C6_SendStep ==
    \A s \in UriStrings, b \in BOOLEAN :
        (calls' # calls /\ runtime /\ sender /\ MissingAmountUri(s)
             /\ Send(s, b, FALSE)) =>
            /\ Last(calls').result = Err("PayjoinRequestMissingAmount")
            /\ ~Last(calls').built
            /\ UNCHANGED << task, task_log, event_queue, broadcasted, transactions,
                            registered >>

C6_CreateRequest ==
    \A s \in UriStrings, b, r \in BOOLEAN :
        MissingAmountUri(s) =>
            create_payjoin_request(Uri_try_from(s).ok, None, b, r)
                = [result |-> Err("PayjoinRequestMissingAmount"), built |-> FALSE]

C6_MissingAmountRejected == [][C6_SendStep /\ C6_CreateRequest]_vars

W6_MissingAmountReturned ==
    \E i \in DOMAIN calls :
        /\ calls[i].result = Err("PayjoinRequestMissingAmount")
        /\ task[i].pc = "none"

\* C7: send and send_with_amount answer NotRunning when the runtime is not
\* running, PayjoinUnavailable when no sender is configured, PayjoinUriInvalid
\* for a URI that does not parse, InvalidNetwork for a URI of another network
\* and the wallet's error when the original transaction cannot be built; a
\* call that answers Err has spawned no task, added no event, broadcast
\* nothing and left the tracked set as it was.
Rejection(s, b) ==
    IF ~runtime THEN "NotRunning"
    ELSE IF ~sender THEN "PayjoinUnavailable"
    ELSE IF ~IsOk(Uri_try_from(s)) THEN "PayjoinUriInvalid"
    ELSE IF ~IsOk(require_network(Uri_try_from(s).ok, ConfigNetwork)) THEN "InvalidNetwork"
    ELSE IF ~IsSome(Uri_try_from(s).ok.amount) THEN "PayjoinRequestMissingAmount"
    ELSE IF ~b THEN "WalletOperationFailed"
    ELSE "none"

RejectionWithAmount(s, b) ==
    IF ~IsOk(Uri_try_from(s)) THEN "PayjoinUriInvalid"
    ELSE IF ~IsOk(require_network(Uri_try_from(s).ok, ConfigNetwork)) THEN "InvalidNetwork"
    ELSE IF ~runtime THEN "NotRunning"
    ELSE IF ~sender THEN "PayjoinUnavailable"
    ELSE IF ~b THEN "WalletOperationFailed"
    ELSE "none"

C7_ErrStep ==
    (Len(calls') = Len(calls) + 1 /\ ~IsOk(Last(calls').result)) =>
        UNCHANGED << task, task_log, event_queue, broadcasted, transactions,
                     registered, best_known_block >>

C7_Errors ==
    calls' # calls =>
        /\ \A s \in UriStrings, b \in BOOLEAN :
               (Send(s, b, FALSE) /\ Rejection(s, b) # "none") =>
                   Last(calls').result = Err(Rejection(s, b))
        /\ \A s \in UriStrings, a \in Amounts, b \in BOOLEAN :
               (SendWithAmount(s, a, b, FALSE) /\ RejectionWithAmount(s, b) # "none") =>
                   Last(calls').result = Err(RejectionWithAmount(s, b))

C7_NoTaskForErr ==
    \A i \in DOMAIN calls : ~IsOk(calls[i].result) => task[i] = NoTask

C7_RejectedBeforeAsyncWork ==
    [][C7_ErrStep /\ C7_Errors /\ C7_NoTaskForErr']_vars

W7_WalletErrorReturned ==
    /\ \E i \in DOMAIN calls :
           calls[i].result = Err("WalletOperationFailed") /\ calls[i].built
    /\ \E i \in DOMAIN calls : calls[i].result = Err("InvalidNetwork")

\* C8: a retry tick whose POST fails in transport, runs into the request
\* timeout or comes back with a status outside 200..299 adds no event,
\* broadcasts nothing, leaves the original transaction and the tracked set
\* alone and returns the task to the select of the next pass.
HttpFailure(outcome) ==
    \/ outcome.kind \in {"transport_error", "timeout"}
    \/ outcome.kind \in {"body_error", "response"}
           /\ ~(outcome.status >= 200 /\ outcome.status <= 299)

Recovered(t) ==
    /\ task'[t].pc = "select"
    /\ task'[t].original_psbt = task[t].original_psbt
    /\ UNCHANGED << event_queue, broadcasted, transactions, registered, task_log >>

C8_HttpErrorsRecoverable ==
    [][\A t \in Tasks, a \in AskedAnswers :
           (HttpFailure(a.outcome)
                /\ HttpReturns(t, a.outcome, a.empty_is_none, a.sign_ok,
                               a.wallet_fault, FALSE))
               => Recovered(t)]_vars

\* C9: a retry tick whose POST is answered with a success status and a body
\* of zero bytes adds no event, does not end the task and returns it to the
\* select of the next pass.
C9_EmptyBodyRecoverable ==
    [][\A t \in Tasks, a \in AskedAnswers :
           (EmptySuccess(a.outcome)
                /\ HttpReturns(t, a.outcome, a.empty_is_none, a.sign_ok,
                               a.wallet_fault, FALSE))
               => Recovered(t)]_vars

\* C10: when the library rejects the relay's response (a body it cannot
\* decode, a proposal it does not accept) or the wallet fails to sign the
\* proposal, the tick adds exactly one PayjoinPaymentFailed event whose reason
\* is that error, broadcasts nothing, adds no PayjoinPaymentPending event and
\* ends the task, which takes no further step.  PayjoinSender's finalisation
\* answers Err and broadcasts nothing when the wallet fails to sign or reports
\* the transaction as not fully signed.
Accepted(outcome) ==
    outcome.kind = "response" /\ outcome.status >= 200 /\ outcome.status <= 299

FailureOf(a) ==
    IF ~Accepted(a.outcome) THEN "none"
    ELSE IF a.outcome.body.kind = "undecodable" THEN "ResponseError"
    ELSE IF a.outcome.body.kind = "proposal" /\ ~a.outcome.body.valid THEN "ResponseError"
    ELSE IF a.outcome.body.kind = "proposal" /\ ~a.sign_ok THEN "WalletOperationFailed"
    ELSE "none"

C10_FailureStep ==
    \A t \in Tasks, a \in AskedAnswers :
        (task[t].pc = "http" /\ task' # task /\ FailureOf(a) # "none"
             /\ HttpReturns(t, a.outcome, a.empty_is_none, a.sign_ok,
                            a.wallet_fault, FALSE)) =>
            LET ev == PayjoinPaymentFailed(task[t].payjoin_uri.address,
                                           task[t].amount_to_send, FailureOf(a))
            IN /\ event_queue' = Append(event_queue, ev)
               /\ task_log'[t].events = << ev >>
               /\ task'[t].pc = "done"
               /\ UNCHANGED << broadcasted, transactions, registered >>

C10_NoRetry ==
    \A t \in Tasks :
        task[t].pc = "done" => (task'[t] = task[t] /\ task_log'[t] = task_log[t])

C10_PayjoinSender ==
    \A tx \in ProposalTxs, g \in SignResults :
        LET f == PayjoinSender_finalise_payjoin_transaction(tx, g)
        IN (g # Ok(TRUE)) =>
               (f.result = Err("PayjoinResponseProcessingFailed") /\ f.broadcast = {})

C10_FailureEndsAttempt ==
    [][C10_FailureStep /\ C10_NoRetry /\ C10_PayjoinSender]_vars

W10_SigningFailed ==
    \E t \in Tasks :
        /\ task[t].pc = "done"
        /\ Len(task_log[t].events) = 1
        /\ IsFailed(task_log[t].events[1])
        /\ task_log[t].events[1].reason = "WalletOperationFailed"
        /\ broadcasted = {}

\* C11: send_with_amount(uri, a) that answers Ok has built the original
\* transaction for a and spawned a task for a, whatever amount uri embeds;
\* every event of the task, and every PayjoinPaymentSuccess event for the
\* transaction it finalised, carries the task's amount.  A send(uri) that
\* answers Ok uses the amount of uri.  PayjoinSender::create_payjoin_request
\* builds for the argument when it is Some(a) and for the URI's amount when
\* it is None.
C11_SendStep ==
    calls' # calls =>
        /\ \A s \in UriStrings, a \in AmountArgs, b \in BOOLEAN :
               (SendWithAmount(s, a, b, FALSE) /\ IsOk(Last(calls').result)) =>
                   /\ task'[Len(calls')].amount_to_send = a
                   /\ task'[Len(calls')].original_psbt.amount = a
        /\ \A s \in UriStrings, b \in BOOLEAN :
               (Send(s, b, FALSE) /\ IsOk(Last(calls').result)) =>
                   /\ Some(task'[Len(calls')].amount_to_send) = Uri_try_from(s).ok.amount
                   /\ Some(task'[Len(calls')].original_psbt.amount)
                          = Uri_try_from(s).ok.amount

C11_Events ==
    \A t \in Tasks :
        task[t].pc # "none" =>
            /\ \A ev \in Range(task_log[t].events) : ev.amount = task[t].amount_to_send
            /\ \A e \in Range(transactions) : e.amount = task[t].amount_to_send
            /\ \A ev \in Range(event_queue) : ev.amount = task[t].amount_to_send

C11_CreateRequest ==
    \A s \in UriStrings, a \in AmountArgs :
        IsOk(Uri_try_from(s)) =>
            LET uri == Uri_try_from(s).ok
            IN /\ create_payjoin_request(uri, Some(a), TRUE, TRUE).result.ok.amount = a
               /\ IsSome(uri.amount) =>
                      create_payjoin_request(uri, None, TRUE, TRUE).result.ok.amount
                          = uri.amount.some

C11_ExplicitAmountWins == [][C11_SendStep /\ C11_Events' /\ C11_CreateRequest]_vars

W11_OtherAmountReported ==
    \E t \in Tasks :
        /\ task[t].pc = "done"
        /\ task[t].amount_to_send = 50000
        /\ task[t].amount_to_send \notin Amounts
        /\ \E ev \in Range(event_queue) : IsSuccess(ev) /\ ev.amount = 50000
        /\ \E ev \in Range(event_queue) : IsPending(ev) /\ ev.amount = 50000

\* C12: no two entries of the tracked set have the same transaction id.
C12_TrackedOnce ==
    \A i, j \in DOMAIN transactions :
        entry_txid(transactions[i]) = entry_txid(transactions[j]) => i = j

Untracked(txdata) ==
    \A i \in DOMAIN txdata : ~IsSome(position(transactions, txid_of(txdata[i])))

C20_Ignored ==
    [][\A h \in Headers, q \in Txdatas, n \in Heights :
           (Untracked(q) /\ TransactionsConfirmed(h, q, n))
               => /\ chain_log'.panic = ""
                  /\ transactions' = transactions
                  /\ best_known_block' = best_known_block
                  /\ event_queue' = event_queue]_vars

\* C19: the overall timer runs once from the start of the task: no POST is
\* started once PAYJOIN_REQUEST_TOTAL_DURATION has elapsed since the start,
\* and a task performs at most
\* PAYJOIN_REQUEST_TOTAL_DURATION / PAYJOIN_RETRY_INTERVAL + 1 POSTs.
\* The interval fires once per POST, so its next deadline counts them.
posts(tk) == (tk.tick_at - tk.started_at) \div PAYJOIN_RETRY_INTERVAL

C19_MaxPosts == PAYJOIN_REQUEST_TOTAL_DURATION \div PAYJOIN_RETRY_INTERVAL + 1

C19_SingleOverallTimer ==
    [][\A t \in Tasks :
           (task[t].pc = "select" /\ task'[t].pc = "http") =>
               /\ now < task[t].started_at + PAYJOIN_REQUEST_TOTAL_DURATION
               /\ posts(task'[t]) <= C19_MaxPosts]_vars

\* C14: the stages a proposal has passed are always an initial part of
\* StageOrder, in that order and without a gap or a repeat, and within one
\* request they only grow; a response carries a proposal only when the last
\* stage is Finalized; inputs are contributed and the output address is
\* substituted only while the last stage is Provisional.
IsPrefix(p, q) == Len(p) <= Len(q) /\ \A k \in DOMAIN p : p[k] = q[k]

C14_Staged(r) ==
    /\ IsPrefix(r.stages, StageOrder)
    /\ IsSome(r.response) => (r.stages = StageOrder /\ r.pc = "responded")
    /\ r.mutated_in \subseteq {"Provisional"}
    /\ (r.contributed # << >> \/ IsSome(r.substituted)) => r.mutated_in # {}

Observed(r) == r.response

C15_SameObservation ==
    rx.failed_at # "" =>
        Observed(rx) = Observed(panic(NoRequest, "collect", "body: connection error"))

W15_FailedAtFinalisation ==
    /\ rx.failed_at = "finalize_proposal"
    /\ rx.detail # "body: connection error"
    /\ Len(rx.stages) = Len(StageOrder) - 1

\* C16: a request that fails at any call is still answered.
C16_FailureAnswered ==
    rx.failed_at # "" => (rx.pc = "responded" /\ IsSome(rx.response))

\* C17: at most one input is contributed per request, and a contributed input
\* is an element of the list that list_unspent returned for this request,
\* with that element's outpoint, value and script.
C17_OneInputOfTheWallet ==
    /\ Len(rx.contributed) <= 1
    /\ \A k \in DOMAIN rx.contributed :
           \E i \in DOMAIN rx.unspent :
               /\ rx.unspent[i].outpoint = rx.contributed[k].outpoint
               /\ rx.unspent[i].txout = rx.contributed[k].txout

W17_SecondOfEqualValues ==
    /\ Len(rx.contributed) = 1
    /\ Len(rx.unspent) = 2
    /\ rx.unspent[1].txout.value = rx.unspent[2].txout.value
    /\ rx.contributed[1].outpoint = rx.unspent[2].outpoint

C21_AllAdvanced ==
    [][\A h \in Headers, q \in Blocks, n \in Heights :
           TransactionsConfirmed(h, q, n) =>
               \A i \in DOMAIN transactions :
                   (/\ transactions[i].state = "PendingFirstConfirmation"
                    /\ \E k \in DOMAIN q : txid_of(q[k]) = txid_of(transactions[i].tx))
                       => \E j \in DOMAIN transactions' :
                              transactions'[j] =
                                  PendingThresholdConfirmations(transactions[i], n,
                                                                block_hash(h))]_vars

\* C22: finalise_payjoin_transaction called while no tip is known fails: the
\* tracked set and the registrations stay as they were and the task reports
\* the failure; called while a tip is known, the entry it inserts is
\* PendingFirstConfirmation with that tip's height and hash.
FinaliseCalled(a) ==
    /\ IsOk(send_request(a.outcome))
    /\ IsOk(process_response(send_request(a.outcome).ok, a.empty_is_none))
    /\ IsSome(process_response(send_request(a.outcome).ok, a.empty_is_none).ok)

C22_FinaliseStep(t, a) ==
    IF ~IsSome(best_known_block)
    THEN /\ transactions' = transactions
         /\ registered' = registered
         /\ broadcasted' = broadcasted
         /\ Len(Added(task_log[t].events, task_log'[t].events)) = 1
         /\ IsFailed(Last(task_log'[t].events))
    ELSE \A e \in Range(Added(transactions, transactions')) :
             /\ e.state = "PendingFirstConfirmation"
             /\ e.first_broadcast_height = best_known_block.some.height
             /\ e.first_broadcast_hash = best_known_block.some.block_hash

C22_TipRequired ==
    [][\A t \in Tasks, a \in AskedAnswers :
           (/\ task[t].pc = "http"
            /\ FinaliseCalled(a)
            /\ HttpReturns(t, a.outcome, a.empty_is_none, a.sign_ok, a.wallet_fault, FALSE))
               => C22_FinaliseStep(t, a)]_vars

W22_FailedWithoutTip ==
    /\ ~IsSome(best_known_block)
    /\ transactions = << >>
    /\ registered = {}
    /\ \E t \in Tasks :
           /\ task[t].pc = "done"
           /\ Len(task_log[t].events) = 1
           /\ IsFailed(Last(task_log[t].events))
           /\ Last(task_log[t].events).reason = "PayjoinReceiverRequestValidationFailed"

\* C23: finalise_payjoin_transaction on a signed transaction of which the
\* wallet recognises no output, because none is its own or because is_mine
\* answers an error, is rejected: the tracked set and the registrations stay
\* as they were, nothing is broadcast, and the task adds one
\* PayjoinPaymentFailed and no PayjoinPaymentPending.
ProposalOf(a) == process_response(send_request(a.outcome).ok, a.empty_is_none).ok.some

NoOwnedOutput(a) ==
    \/ a.wallet_fault
    \/ \A i \in DOMAIN ProposalOf(a).tx.output : ProposalOf(a).tx.output[i] \notin OurScripts

C23_Rejected(t) ==
    /\ transactions' = transactions
    /\ registered' = registered
    /\ broadcasted' = broadcasted
    /\ Len(Added(task_log[t].events, task_log'[t].events)) = 1
    /\ IsFailed(Last(task_log'[t].events))
    /\ Added(event_queue, event_queue') = Added(task_log[t].events, task_log'[t].events)

C23_NoOwnedOutputRejected ==
    [][\A t \in Tasks, a \in AskedAnswers :
           (/\ task[t].pc = "http"
            /\ FinaliseCalled(a) /\ a.sign_ok /\ NoOwnedOutput(a)
            /\ HttpReturns(t, a.outcome, a.empty_is_none, a.sign_ok, a.wallet_fault, FALSE))
               => C23_Rejected(t)]_vars

W23_RejectedWithTip ==
    /\ IsSome(best_known_block)
    /\ ~poisoned
    /\ transactions = << >>
    /\ registered = {}
    /\ broadcasted = {}
    /\ \E t \in Tasks :
           /\ task[t].pc = "done"
           /\ task_log[t].events = event_queue
           /\ Len(event_queue) = 1
           /\ IsFailed(event_queue[1])
           /\ event_queue[1].reason = "PayjoinReceiverRequestValidationFailed"

\* C24: best_block_updated(header, height) removes exactly the
\* PendingThresholdConfirmations entries with
\* height - first_confirmation_height >= ANTI_REORG_DELAY and adds one
\* PayjoinPaymentSuccess for each of them; the other entries stay, unchanged
\* and in their order, and no event is added for them.
MetThreshold(e, height) ==
    /\ e.state = "PendingThresholdConfirmations"
    /\ height - e.first_confirmation_height >= ANTI_REORG_DELAY

RECURSIVE SuccessEvents(_, _)
SuccessEvents(txs, height) ==
    IF txs = << >> THEN << >>
    ELSE (IF MetThreshold(Head(txs), height)
          THEN << PayjoinPaymentSuccess(Head(txs)) >> ELSE << >>)
         \o SuccessEvents(Tail(txs), height)

C24_Below(e) == ~MetThreshold(e, best_known_block'.some.height)

C24_ExactSweep ==
    [][\A h \in Headers, n \in Heights :
           BestBlockUpdated(h, n) =>
               /\ transactions' = SelectSeq(transactions, C24_Below)
               /\ Added(event_queue, event_queue') = SuccessEvents(transactions, n)]_vars

\* C25: no operation of the tracker calls the event queue, the chain source
\* or the wallet while it holds one of the two locks.
C25_Collaborators ==
    {"add_event", "register_tx", "sign_payjoin_proposal", "is_mine"}

C25_NoCallUnderLock ==
    \A th \in Threads :
        \A x \in conc.thread[th].external :
            x.call \in C25_Collaborators => x.held = {}

\* C26: a best_block_updated call that is about to sweep, or has swept and
\* not yet returned, finds in the cached tip the tip it wrote: no other call
\* has written the tip in between.
C26_SweepAgainstLatestTip ==
    \A th \in Threads :
        (/\ conc.thread[th].op = "best_block_updated"
         /\ conc.thread[th].pc \in {"retain", "return"})
            => best_known_block =
                   Some([height |-> conc.thread[th].height,
                         block_hash |-> block_hash(conc.thread[th].header)])

\* C27: within a negotiation the proposal is signed before the entry is
\* inserted, the entry is inserted before the transaction is registered with
\* the chain source, the transaction is registered before it is broadcast,
\* and it is broadcast before its PayjoinPaymentPending is added; so a
\* transaction that is registered or broadcast is never one that has not been
\* inserted yet: it is tracked, or it has been removed since.
C27_Tracked(txid) ==
    \E i \in DOMAIN transactions : entry_txid(transactions[i]) = Some(txid)

C27_Removed(txid) ==
    \/ poisoned
    \/ \E k \in DOMAIN event_queue :
           IsSuccess(event_queue[k]) /\ event_queue[k].txid = txid

C27_Ordered ==
    /\ \A reg \in registered : C27_Tracked(reg[1]) \/ C27_Removed(reg[1])
    /\ \A tx \in broadcasted : \E reg \in registered : reg[1] = txid_of(tx)
    /\ \A k \in DOMAIN event_queue :
           IsPending(event_queue[k]) =>
               \E tx \in broadcasted : txid_of(tx) = event_queue[k].txid

C27_SignedFirst ==
    \A th \in Threads :
        (conc.thread[th].op = "finalise_payjoin_transaction"
         /\ Len(transactions') > Len(transactions)
         /\ conc'.thread[th] # conc.thread[th])
            => [call |-> "sign_payjoin_proposal", held |-> {}]
                   \in conc.thread[th].external

C27_NegotiationOrder == [][C27_Ordered' /\ C27_SignedFirst]_vars

W27_PendingAfterAll ==
    /\ C27_Tracked(txid_of(TxPaysUs))
    /\ << txid_of(TxPaysUs), "ours" >> \in registered
    /\ TxPaysUs \in broadcasted
    /\ Len(event_queue) = 1
    /\ IsPending(event_queue[1])
    /\ event_queue[1].txid = txid_of(TxPaysUs)
    /\ \A th \in Threads : conc.thread[th].pc = "idle"
    /\ conc.finalisations = 1

C29_Owned(psbt) ==
    previous_outputs(psbt) \cap {u.outpoint : u \in WalletUtxos} # {}

C29_NotOwnedPasses ==
    (IsSome(rx.psbt) /\ ~C29_Owned(rx.psbt.some))
        => rx.failed_at # "check_inputs_not_owned"

\* C30: once the loop has run, a proposal whose inputs hold the original's
\* inputs in the original's order has, on every input that spends what an
\* original input spends, that original input's witness_utxo and
\* non_witness_utxo; in any proposal an input that spends what no original input
\* spends is as it was received; and the original PSBT is as it was sent.
C30_Outpoints(psbt) == [i \in DOMAIN psbt |-> psbt[i].previous_output]

C30_InOriginalOrder(proposed, original) ==
    SelectSeq(C30_Outpoints(proposed),
              LAMBDA o : o \in Range(C30_Outpoints(original)))
        = C30_Outpoints(original)

C30_Reattached ==
    payjoin_sender.pc # "none" =>
        LET sent == payjoin_sender.sent
            received == payjoin_sender.received
            proposed == payjoin_sender.payjoin_proposal_psbt
        IN /\ Len(proposed) = Len(received)
           /\ C30_Outpoints(proposed) = C30_Outpoints(received)
           /\ C30_InOriginalOrder(received, sent) =>
                  \A i \in DOMAIN proposed : \A j \in DOMAIN sent :
                      proposed[i].previous_output = sent[j].previous_output =>
                          /\ proposed[i].witness_utxo = sent[j].witness_utxo
                          /\ proposed[i].non_witness_utxo = sent[j].non_witness_utxo
           /\ \A i \in DOMAIN proposed :
                  received[i].previous_output \notin Range(C30_Outpoints(sent))
                      => proposed[i] = received[i]
           /\ payjoin_sender.original_psbt = sent

W30_ReceiverInputBetween ==
    /\ payjoin_sender.pc = "returned"
    /\ C30_Outpoints(payjoin_sender.sent) = << "a:0", "b:0" >>
    /\ C30_Outpoints(payjoin_sender.received) = << "a:0", "r:0", "b:0" >>
    /\ payjoin_sender.received[1].witness_utxo = None
    /\ payjoin_sender.received[3].witness_utxo = None
    /\ payjoin_sender.payjoin_proposal_psbt[1].witness_utxo = Some(<< "txout", "a:0" >>)
    /\ payjoin_sender.payjoin_proposal_psbt[3].witness_utxo = Some(<< "txout", "b:0" >>)
    /\ payjoin_sender.payjoin_proposal_psbt[2] = payjoin_sender.received[2]
    /\ IsSome(payjoin_sender.payjoin_proposal_psbt[3].non_witness_utxo)

\* C31: a transactions_confirmed notification whose first transaction is
\* tracked finds its entry PendingFirstConfirmation, and the transaction is
\* still tracked when the notification has ended.
C31_Matched(q) ==
    /\ q # << >>
    /\ ~poisoned
    /\ IsSome(position(transactions, txid_of(q[1])))

C31_MatchedIsFirstConfirmation ==
    [][\A h \in Headers, q \in Blocks, n \in Heights :
           (C31_Matched(q) /\ TransactionsConfirmed(h, q, n)) =>
               /\ transactions[position(transactions, txid_of(q[1])).some].state
                      = "PendingFirstConfirmation"
               /\ IsSome(position(transactions', txid_of(q[1])))
               /\ ~poisoned']_vars

\* C32: when best_block_updated(header, height) sweeps the tracked set, every
\* PendingThresholdConfirmations entry has a first confirmation height that
\* is at most height, and a Success event is added only for entries of which
\* height - first_confirmation_height is at least ANTI_REORG_DELAY.
C32_NoUnderflow ==
    [][\A h \in Headers, n \in Heights :
           (~poisoned /\ BestBlockUpdated(h, n)) =>
               /\ \A i \in DOMAIN transactions :
                      transactions[i].state = "PendingThresholdConfirmations"
                          => n >= transactions[i].first_confirmation_height
               /\ ~poisoned'
               /\ Added(event_queue, event_queue') = SuccessEvents(transactions, n)]_vars

\* C33: a tip update takes an entry out of the tracked set only if the event
\* queue has taken a PayjoinPaymentSuccess for its transaction in that call.
C33_ReportedWhenRemoved ==
    [][\A h \in Headers, n \in Heights, accepted \in BOOLEAN :
           BestBlockUpdatedWith(h, n, accepted) =>
               \A i \in DOMAIN transactions :
                   (\A j \in DOMAIN transactions' :
                        entry_txid(transactions'[j]) # entry_txid(transactions[i]))
                       => \E ev \in Range(Added(event_queue, event_queue')) :
                              /\ IsSuccess(ev)
                              /\ Some(ev.txid) = entry_txid(transactions[i])]_vars

\* C34: no thread holds a guard of best_known_block and a guard of
\* transactions together, no thread is about to take a lock of which it holds
\* a guard, and a thread that holds a guard can take its next step, whatever
\* the other threads do: no operation waits for ever.
C34_Guards(lock) == {lock, read(lock)}

C34_Acquires(pc) ==
    IF pc \in {"lock_transactions", "push", "read_transactions"}
    THEN C34_Guards("transactions")
    ELSE IF pc \in {"write_tip", "read_tip"} THEN C34_Guards("best_known_block")
    ELSE {}

C34_DeadlockFree ==
    \A th \in Threads :
        LET me == conc.thread[th]
        IN /\ ~(/\ me.held \cap C34_Guards("best_known_block") # {}
                /\ me.held \cap C34_Guards("transactions") # {})
           /\ me.held \cap C34_Acquires(me.pc) = {}
           /\ me.held # {} => ENABLED (Retain(th) \/ Advance(th) \/ Return(th))

W34_WaitsForTheSweep ==
    \E th, o \in Threads :
        /\ conc.thread[th].op = "best_block_updated"
        /\ conc.thread[th].held = {"transactions"}
        /\ conc.thread[o].op = "finalise_payjoin_transaction"
        /\ conc.thread[o].pc = "push"

====
